---- MODULE Spec2Model ----
(***************************************************************************)
(* A model of network/protocol.py: the Form envelope, its JSON appendix    *)
(* codec, the FormTransmitterThread and the FormReceiverThread that move   *)
(* one Form over a Connection, and the byte streams between them.          *)
(*                                                                         *)
(* Text and bytes are sequences of one-character strings.  A Python call   *)
(* that can raise returns a record whose field err names the exception     *)
(* ("" when it returned).  A result that is read several times is bound    *)
(* once: CHOOSE r \in {e(x) : x \in {result}} : TRUE is e(result).          *)
(***************************************************************************)
EXTENDS Integers, Sequences, FiniteSets, TLC

VARIABLES tx, rx, t2r, r2t, now, harness, handler, wrapper

vars == <<tx, rx, t2r, r2t, now, harness, handler, wrapper>>

(***************************************************************************)
(* Bounds of the model.                                                    *)
(***************************************************************************)
MaxBodyLen == 3
MaxSepLen == 2
MaxChunks == 4
MaxTime == 3
MaxAppendixLen == 12
MaxTokenLen == 2
MaxLines == 2
MaxMessages == 3
MaxAttempts == 2
MaxTries == 4

(***************************************************************************)
(* Python's str and bytes operations, as the code uses them.               *)
(***************************************************************************)
NL == "\n"
SP == " "
TAB == "\t"

Min(a, b) == IF a < b THEN a ELSE b

StrUpTo(chars, n) == UNION {[1..k -> chars] : k \in 0..n}

\* s[:k]
SliceTo(s, k) == SubSeq(s, 1, Min(k, Len(s)))

\* s[k:]
SliceFrom(s, k) == SubSeq(s, Min(k, Len(s)) + 1, Len(s))

\* c in s
Contains(s, c) == \E i \in 1..Len(s) : s[i] = c

\* the index of the first c in s, 0 when there is none
IndexOf(s, c, i) ==
    IF \E j \in i..Len(s) : s[j] = c
    THEN CHOOSE j \in i..Len(s) : s[j] = c /\ \A k \in i..(j - 1) : s[k] # c
    ELSE 0

\* s.split(c): always at least one piece
RECURSIVE SplitOn(_, _)
SplitOn(s, c) ==
    LET i == IndexOf(s, c, 1)
    IN IF i = 0 THEN <<s>>
       ELSE <<SubSeq(s, 1, i - 1)>> \o SplitOn(SubSeq(s, i + 1, Len(s)), c)

\* s.split("\n")
Split(s) == SplitOn(s, NL)

\* "\n".join(lines)
RECURSIVE Join(_)
Join(lines) ==
    IF Len(lines) = 0 THEN <<>>
    ELSE IF Len(lines) = 1 THEN lines[1]
    ELSE lines[1] \o <<NL>> \o Join(Tail(lines))

\* s.replace(old, ""): every non-overlapping occurrence, left to right
RECURSIVE Remove(_, _)
Remove(s, old) ==
    IF Len(old) = 0 \/ Len(s) = 0 THEN s
    ELSE IF SliceTo(s, Len(old)) = old /\ Len(s) >= Len(old)
         THEN Remove(SliceFrom(s, Len(old)), old)
         ELSE <<s[1]>> \o Remove(Tail(s), old)

\* s.strip(): Python strips the whitespace characters on both ends
IsSpace(c) == c \in {SP, NL, "\t", "\r"}

RECURSIVE LStrip(_)
LStrip(s) == IF Len(s) > 0 /\ IsSpace(s[1]) THEN LStrip(Tail(s)) ELSE s

RECURSIVE RStrip(_)
RStrip(s) ==
    IF Len(s) > 0 /\ IsSpace(s[Len(s)]) THEN RStrip(SubSeq(s, 1, Len(s) - 1)) ELSE s

Strip(s) == RStrip(LStrip(s))

\* s.split(): the words between runs of whitespace
RECURSIVE WordEnd(_, _)
WordEnd(s, i) == IF i > Len(s) \/ IsSpace(s[i]) THEN i - 1 ELSE WordEnd(s, i + 1)

RECURSIVE SplitWs(_)
SplitWs(s) ==
    LET t == LStrip(s)
        e == WordEnd(t, 1)
    IN IF Len(t) = 0 THEN <<>>
       ELSE <<SubSeq(t, 1, e)>> \o SplitWs(SubSeq(t, e + 1, Len(t)))

LowerCase == <<"a", "b", "c", "d", "e", "f", "g", "h", "i", "j", "k", "l", "m", "n", "o", "p", "q", "r", "s", "t", "u", "v", "w", "x", "y", "z">>
UpperCase == <<"A", "B", "C", "D", "E", "F", "G", "H", "I", "J", "K", "L", "M", "N", "O", "P", "Q", "R", "S", "T", "U", "V", "W", "X", "Y", "Z">>

\* s.upper()
Upper(s) ==
    [i \in 1..Len(s) |->
        IF \E j \in 1..Len(LowerCase) : LowerCase[j] = s[i]
        THEN UpperCase[CHOOSE j \in 1..Len(LowerCase) : LowerCase[j] = s[i]]
        ELSE s[i]]

Digits == <<"0", "1", "2", "3", "4", "5", "6", "7", "8", "9">>

IsDigit(c) == \E d \in 1..10 : Digits[d] = c

DigitValue(c) == (CHOOSE d \in 1..10 : Digits[d] = c) - 1

AllDigits(s) == Len(s) > 0 /\ \A i \in 1..Len(s) : IsDigit(s[i])

\* str(n) of a non-negative int
RECURSIVE StrOfNat(_)
StrOfNat(n) ==
    IF n < 10 THEN <<Digits[n + 1]>>
    ELSE StrOfNat(n \div 10) \o <<Digits[(n % 10) + 1]>>

\* str(n)
StrOfInt(n) == IF n < 0 THEN <<"-">> \o StrOfNat(0 - n) ELSE StrOfNat(n)

RECURSIVE NatOfDigits(_, _)
NatOfDigits(s, acc) ==
    IF Len(s) = 0 THEN acc
    ELSE NatOfDigits(Tail(s), acc * 10 + DigitValue(s[1]))

\* int(s): surrounding whitespace and one sign are accepted, anything else
\* raises ValueError
PyInt(s) ==
    LET t == Strip(s)
        signed == Len(t) > 0 /\ t[1] \in {"-", "+"}
        d == IF signed THEN Tail(t) ELSE t
    IN IF ~AllDigits(d) THEN [err |-> "ValueError", v |-> 0]
       ELSE [err |-> "",
             v |-> IF signed /\ t[1] = "-" THEN 0 - NatOfDigits(d, 0)
                   ELSE NatOfDigits(d, 0)]

(***************************************************************************)
(* Appendix values.  A value is a record: k its kind ("list", "int", "str" *)
(* or "bytes"), xs the items of a list, n the number, s the characters of  *)
(* a str or of a bytes object.                                             *)
(***************************************************************************)
ListVal(xs) == [k |-> "list", n |-> 0, xs |-> xs, s |-> <<>>]
IntVal(n) == [k |-> "int", n |-> n, xs |-> <<>>, s |-> <<>>]
StrVal(s) == [k |-> "str", n |-> 0, xs |-> <<>>, s |-> s]
BytesVal(s) == [k |-> "bytes", n |-> 0, xs |-> <<>>, s |-> s]
NoneVal == [k |-> "None", n |-> 0, xs |-> <<>>, s |-> <<>>]
\* a dict: xs are its <<key, value>> pairs in insertion order
DictVal(pairs) == [k |-> "dict", n |-> 0, xs |-> pairs, s |-> <<>>]
\* an exception object: xs the name of its class, s its message
ExcVal(name, message) == [k |-> "exc", n |-> 0, xs |-> name, s |-> message]
\* a Form object passed as an argument: xs is the Form
FormVal(form) == [k |-> "Form", n |-> 0, xs |-> form, s |-> <<>>]

\* len(value): an int has no len()
PyLen(v) ==
    IF v.k \in {"list", "dict"} THEN [err |-> "", v |-> Len(v.xs)]
    ELSE IF v.k \in {"str", "bytes"} THEN [err |-> "", v |-> Len(v.s)]
    ELSE [err |-> "TypeError", v |-> 0]

RECURSIVE JoinItems(_)
JoinItems(xs) ==
    IF Len(xs) = 0 THEN <<>>
    ELSE IF Len(xs) = 1 THEN StrOfInt(xs[1])
    ELSE StrOfInt(xs[1]) \o <<",", SP>> \o JoinItems(Tail(xs))

\* sep.join(strings)
RECURSIVE JoinWith(_, _)
JoinWith(strings, sep) ==
    IF Len(strings) = 0 THEN <<>>
    ELSE IF Len(strings) = 1 THEN strings[1]
    ELSE strings[1] \o sep \o JoinWith(Tail(strings), sep)

\* json.dumps(obj), for lists of ints, ints, strs that need no escape and
\* dicts of such values; an object json cannot serialize raises TypeError
RECURSIVE JsonDumps(_)
JsonDumps(v) ==
    IF v.k = "list" THEN [err |-> "", s |-> <<"[">> \o JoinItems(v.xs) \o <<"]">>]
    ELSE IF v.k = "dict"
    THEN CHOOSE r \in
           {IF \E i \in 1..Len(items) : items[i].err # ""
            THEN [err |-> "TypeError", s |-> <<>>]
            ELSE [err |-> "",
                  s |-> <<"{">> \o
                        JoinWith([i \in 1..Len(items) |->
                                    <<"\"">> \o v.xs[i][1] \o <<"\"", ":", SP>> \o items[i].s],
                                 <<",", SP>>) \o
                        <<"}">>] :
            items \in {[i \in 1..Len(v.xs) |-> JsonDumps(v.xs[i][2])]}} : TRUE
    ELSE IF v.k = "int" THEN [err |-> "", s |-> StrOfInt(v.n)]
    ELSE IF v.k = "str" THEN [err |-> "", s |-> <<"\"">> \o v.s \o <<"\"">>]
    ELSE [err |-> "TypeError", s |-> <<>>]

\* a JSON number without fraction: -?(0|[1-9][0-9]*)
IsJsonInt(t) ==
    LET d == IF Len(t) > 0 /\ t[1] = "-" THEN Tail(t) ELSE t
    IN AllDigits(d) /\ (Len(d) = 1 \/ d[1] # "0")

JsonIntValue(t) ==
    IF t[1] = "-" THEN 0 - NatOfDigits(Tail(t), 0) ELSE NatOfDigits(t, 0)

\* the pieces of s between the characters c that are outside every [...]
\* and {...}, from position i on, the current piece beginning at start
RECURSIVE SplitTop(_, _, _, _, _)
SplitTop(s, c, i, depth, start) ==
    IF i > Len(s) THEN <<SubSeq(s, start, Len(s))>>
    ELSE IF s[i] \in {"[", "{"} THEN SplitTop(s, c, i + 1, depth + 1, start)
    ELSE IF s[i] \in {"]", "}"} THEN SplitTop(s, c, i + 1, depth - 1, start)
    ELSE IF s[i] = c /\ depth = 0
    THEN <<SubSeq(s, start, i - 1)>> \o SplitTop(s, c, i + 1, 0, i + 1)
    ELSE SplitTop(s, c, i + 1, depth, start)

\* json.loads(text), for the same values (strs without bracket, brace, comma
\* or colon, the keys of a dict distinct); any other text raises ValueError
RECURSIVE JsonLoads(_)
JsonLoads(text) ==
    LET t == Strip(text)
        n == Len(t)
        inner == IF n >= 2 THEN SubSeq(t, 2, n - 1) ELSE <<>>
        items == SplitOn(inner, ",")
    IN IF n >= 2 /\ t[1] = "[" /\ t[n] = "]"
       THEN IF Strip(inner) = <<>> THEN [err |-> "", v |-> ListVal(<<>>)]
            ELSE IF \A i \in 1..Len(items) : IsJsonInt(Strip(items[i]))
            THEN [err |-> "",
                  v |-> ListVal([i \in 1..Len(items) |-> JsonIntValue(Strip(items[i]))])]
            ELSE [err |-> "ValueError", v |-> NoneVal]
       ELSE IF n >= 2 /\ t[1] = "{" /\ t[n] = "}"
       THEN IF Strip(inner) = <<>> THEN [err |-> "", v |-> DictVal(<<>>)]
            ELSE CHOOSE r \in
                   {IF \A i \in 1..Len(pairs) :
                          /\ Len(pairs[i]) = 2
                          /\ pairs[i][1].err = "" /\ pairs[i][1].v.k = "str"
                          /\ pairs[i][2].err = ""
                    THEN [err |-> "",
                          v |-> DictVal([i \in 1..Len(pairs) |->
                                           <<pairs[i][1].v.s, pairs[i][2].v>>])]
                    ELSE [err |-> "ValueError", v |-> NoneVal] :
                    pairs \in
                      {[i \in 1..Len(members) |->
                          [k \in 1..Len(members[i]) |-> JsonLoads(members[i][k])]] :
                       members \in
                         {[i \in 1..Len(top) |-> SplitTop(top[i], ":", 1, 0, 1)] :
                          top \in {SplitTop(inner, ",", 1, 0, 1)}}}} : TRUE
       ELSE IF n >= 2 /\ t[1] = "\"" /\ t[n] = "\"" /\ ~Contains(inner, "\"")
       THEN [err |-> "", v |-> StrVal(inner)]
       ELSE IF IsJsonInt(t) THEN [err |-> "", v |-> IntVal(JsonIntValue(t))]
       ELSE [err |-> "ValueError", v |-> NoneVal]

\* JsonAppendixEncoder.encode
encode(obj) == JsonDumps(obj)

\* JsonAppendixEncoder.decode: text that is empty after strip() is the empty list
decode(byte_string) ==
    IF Len(Strip(byte_string)) = 0 THEN [err |-> "", v |-> ListVal(<<>>)]
    ELSE JsonLoads(byte_string)

(***************************************************************************)
(* PickleAppendixEncoder.  A byte that is no printable character is written *)
(* by its hexadecimal value ("x80"); a pickle of protocol 4 begins with    *)
(* the bytes x80 x04 and ends with the STOP opcode ".".  The FRAME and      *)
(* MEMOIZE opcodes, which carry no value, are left out.                    *)
(***************************************************************************)
JsonAppendixEncoder == "JsonAppendixEncoder"
PickleAppendixEncoder == "PickleAppendixEncoder"

\* the byte of value n
ByteOf(n) == <<"x00", "x01", "x02", "x03", "x04", "x05", "x06", "x07">>[n + 1]

\* pickle.dumps(obj), for None, a small int and a list of small ints
PickleDumps(v) ==
    LET K(n) == <<"K", ByteOf(n)>>
        items == [i \in 1..Len(v.xs) |-> K(v.xs[i])]
        opcodes ==
          IF v.k = "None" THEN <<"N">>
          ELSE IF v.k = "int" THEN K(v.n)
          ELSE IF Len(v.xs) = 0 THEN <<"]">>
          ELSE IF Len(v.xs) = 1 THEN <<"]">> \o items[1] \o <<"a">>
          ELSE <<"]", "(">> \o items[1] \o items[2] \o <<"e">>
    IN [err |-> "", s |-> <<"x80", "x04">> \o opcodes \o <<".">>]

\* the values PickleDumps is defined for
Picklable == {NoneVal, ListVal(<<>>), ListVal(<<1>>), ListVal(<<1, 2>>)}
               \cup {IntVal(n) : n \in 0..7}

\* pickle.loads(byte_string): the value whose pickle the bytes are; EOFError
\* for no bytes, UnpicklingError for bytes that are no pickle
PickleLoads(byte_string) ==
    IF Len(byte_string) = 0 THEN [err |-> "EOFError", v |-> NoneVal]
    ELSE IF \E v \in Picklable : PickleDumps(v).s = byte_string
    THEN [err |-> "", v |-> CHOOSE v \in Picklable : PickleDumps(v).s = byte_string]
    ELSE [err |-> "UnpicklingError", v |-> NoneVal]

\* appendix_encoder.encode(obj)
encode_with(appendix_encoder, obj) ==
    IF appendix_encoder = PickleAppendixEncoder THEN PickleDumps(obj) ELSE encode(obj)

\* appendix_encoder.decode(byte_string)
decode_with(appendix_encoder, byte_string) ==
    IF appendix_encoder = PickleAppendixEncoder THEN PickleLoads(byte_string)
    ELSE decode(byte_string)

(***************************************************************************)
(* Form.  A Form is a record of title, body, appendix and appendix_encoded.*)
(***************************************************************************)
NoForm == [title |-> <<>>, body |-> <<>>, appendix |-> NoneVal, appendix_encoded |-> <<>>]

\* Form.check_title, for a str title
check_title(title) == IF Contains(title, NL) THEN "ValueError" ELSE ""

\* Form.evaluate_appendix: bytes are decoded, every other value is encoded
evaluate_appendix(appendix) ==
    IF appendix.k = "bytes"
    THEN LET d == decode(appendix.s)
         IN [err |-> d.err, appendix |-> d.v, appendix_encoded |-> appendix.s]
    ELSE LET e == encode(appendix)
         IN [err |-> e.err, appendix |-> appendix, appendix_encoded |-> e.s]

\* Form.__init__, for a str title and a str body
Form(title, body, appendix) ==
    LET t == check_title(title)
    IN CHOOSE r \in
         {IF t # "" THEN [err |-> t, form |-> NoForm]
          ELSE IF a.err # "" THEN [err |-> a.err, form |-> NoForm]
          ELSE [err |-> "",
                form |-> [title |-> title, body |-> body,
                          appendix |-> a.appendix, appendix_encoded |-> a.appendix_encoded]] :
          a \in {evaluate_appendix(appendix)}} : TRUE

\* Form.__init__ with the parameter appendix_encoder given: evaluate_appendix
\* with self.appendix_encoder
Form_appendix_encoder(title, body, appendix, appendix_encoder) ==
    LET t == check_title(title)
        a == IF appendix.k = "bytes"
             THEN LET d == decode_with(appendix_encoder, appendix.s)
                  IN [err |-> d.err, appendix |-> d.v, appendix_encoded |-> appendix.s]
             ELSE LET e == encode_with(appendix_encoder, appendix)
                  IN [err |-> e.err, appendix |-> appendix, appendix_encoded |-> e.s]
    IN IF t # "" THEN [err |-> t, form |-> NoForm]
       ELSE IF a.err # "" THEN [err |-> a.err, form |-> NoForm]
       ELSE [err |-> "",
             form |-> [title |-> title, body |-> body,
                       appendix |-> a.appendix, appendix_encoded |-> a.appendix_encoded]]

\* Form.empty with `or` in the place of `and`
empty_either(form) ==
    IF Len(form.body) = 0 THEN [err |-> "", v |-> TRUE]
    ELSE LET l == PyLen(form.appendix)
         IN [err |-> l.err, v |-> l.err = "" /\ l.v = 0]

\* Form.empty: len(self.appendix) is evaluated only when the body is empty
empty(form) ==
    IF Len(form.body) # 0 THEN [err |-> "", v |-> FALSE]
    ELSE LET l == PyLen(form.appendix)
         IN [err |-> l.err, v |-> l.err = "" /\ l.v = 0]

\* Form.valid
valid(form) ==
    IF Len(Remove(form.title, <<SP>>)) = 0 THEN [err |-> "", v |-> FALSE]
    ELSE LET e == empty(form)
         IN IF e.err # "" THEN [err |-> e.err, v |-> FALSE]
            ELSE [err |-> "", v |-> ~e.v]

\* Form.__eq__
FormEq(a, b) == a.title = b.title /\ a.body = b.body /\ a.appendix = b.appendix

(***************************************************************************)
(* Optional values: None is the empty sequence, a set value a sequence of  *)
(* one element.                                                            *)
(***************************************************************************)
None == <<>>
Some(x) == <<x>>
IsNone(o) == Len(o) = 0

(***************************************************************************)
(* SocketConnection.  A direction of the connection is the sequence of     *)
(* bytes written and not yet read.  A receive returns a record: blocked    *)
(* (the data it waits for is not there yet), err, data (what it returns)   *)
(* and rest (the stream it leaves).  start is the time the call began.     *)
(***************************************************************************)
ACK == <<"a", "c", "k">>

\* Connection._check_length
_check_length(length) == IF ~(length > 0) THEN "ValueError" ELSE ""

\* SocketConnection.receive_length_bytes(length, timeout): the elapsed time
\* is looked at only after recv() has returned data
receive_length_bytes(inbound, length, timeout, start, t) ==
    IF _check_length(length) # ""
    THEN [blocked |-> FALSE, err |-> _check_length(length), data |-> <<>>, rest |-> inbound]
    ELSE IF Len(inbound) < length
    THEN [blocked |-> TRUE, err |-> "", data |-> <<>>, rest |-> inbound]
    ELSE IF t - start > timeout
    THEN [blocked |-> FALSE, err |-> "TimeoutError", data |-> <<>>,
          rest |-> SliceFrom(inbound, length)]
    ELSE [blocked |-> FALSE, err |-> "", data |-> SliceTo(inbound, length),
          rest |-> SliceFrom(inbound, length)]

\* a call connection.receive_length_bytes(*args): the method takes length and
\* timeout, both without default; any other number of arguments raises
\* TypeError before the method body runs
call_receive_length_bytes(inbound, args, start, t) ==
    IF Len(args) # 2
    THEN [blocked |-> FALSE, err |-> "TypeError", data |-> <<>>, rest |-> inbound]
    ELSE receive_length_bytes(inbound, args[1], args[2], start, t)

\* receive_bytes_until_byte reading in blocks: everything that has arrived is
\* taken from the stream
receive_bytes_until_byte_block(inbound, byte, timeout, start, t) ==
    LET i == IndexOf(inbound, byte, 1)
    IN IF i = 0
       THEN [blocked |-> TRUE, err |-> "", data |-> <<>>, rest |-> inbound]
       ELSE IF t - start > timeout
       THEN [blocked |-> FALSE, err |-> "TimeoutError", data |-> <<>>, rest |-> <<>>]
       ELSE [blocked |-> FALSE, err |-> "", data |-> SubSeq(inbound, 1, i - 1),
             rest |-> <<>>]

\* SocketConnection.receive_bytes_until_byte(byte, timeout): one byte at a
\* time up to and including the first `byte`, which is not returned
receive_bytes_until_byte(inbound, byte, timeout, start, t) ==
    LET i == IndexOf(inbound, byte, 1)
    IN IF i = 0
       THEN [blocked |-> TRUE, err |-> "", data |-> <<>>, rest |-> inbound]
       ELSE IF t - start > timeout
       THEN [blocked |-> FALSE, err |-> "TimeoutError", data |-> <<>>,
             rest |-> SliceFrom(inbound, i)]
       ELSE [blocked |-> FALSE, err |-> "", data |-> SubSeq(inbound, 1, i - 1),
             rest |-> SliceFrom(inbound, i)]

\* SocketConnection.receive_line(timeout)
receive_line(inbound, timeout, start, t) ==
    receive_bytes_until_byte(inbound, NL, timeout, start, t)

(***************************************************************************)
(* FormTransmitterThread.                                                  *)
(***************************************************************************)
\* FormTransmitterThread.check_form
Transmitter_check_form(form) ==
    LET v == valid(form)
    IN IF v.err # "" THEN v.err
       ELSE IF ~v.v THEN "ValueError"
       ELSE ""

\* FormTransmitterThread.check_separation, for a str separation
Transmitter_check_separation(separation) ==
    IF Contains(separation, NL) THEN "ValueError"
    ELSE IF Len(Remove(separation, <<SP>>)) = 0 THEN "ValueError"
    ELSE ""

\* the test both body scans make: line[:len(separation)] == separation
Collides(line, separation) == SliceTo(line, Len(separation)) = separation

\* check_body_string taking only a line longer than the token for a collision
check_body_string_longer(body, separation) ==
    IF \E i \in 1..Len(Split(body)) :
          Len(Split(body)[i]) > Len(separation) /\ Collides(Split(body)[i], separation)
    THEN "ValueError"
    ELSE ""

\* FormTransmitterThread.check_body_string
check_body_string(body, separation) ==
    IF \E i \in 1..Len(Split(body)) : Collides(Split(body)[i], separation)
    THEN "ValueError"
    ELSE ""

\* adjust_body_string putting the space behind the line
adjust_body_string_behind(body, separation) ==
    LET lines == Split(body)
    IN Join([i \in 1..Len(lines) |->
                IF Collides(lines[i], separation) THEN lines[i] \o <<SP>>
                ELSE lines[i]])

\* FormTransmitterThread.adjust_body_string: the new body
adjust_body_string(body, separation) ==
    LET lines == Split(body)
    IN Join([i \in 1..Len(lines) |->
                IF Collides(lines[i], separation) THEN <<SP>> \o lines[i]
                ELSE lines[i]])

\* FormTransmitterThread.assemble_separator
assemble_separator(form, separation) ==
    separation \o StrOfInt(Len(form.appendix_encoded))

NoTransmitter ==
    [pc |-> "new", form |-> NoForm, separation |-> <<>>, timeout |-> 0,
     running |-> FALSE, finished |-> FALSE, error |-> "", line |-> 0, start |-> 0]

\* FormTransmitterThread.__init__: the thread object, or the exception raised
FormTransmitterThread(form, separation, timeout, adjust) ==
    LET f == Transmitter_check_form(form)
        s == Transmitter_check_separation(separation)
        b == IF adjust THEN "" ELSE check_body_string(form.body, separation)
        e == IF f # "" THEN f ELSE IF s # "" THEN s ELSE b
    IN IF e # ""
       THEN [NoTransmitter EXCEPT !.pc = "raised", !.error = e, !.form = form]
       ELSE [NoTransmitter EXCEPT
               !.pc = "send_title",
               !.form = IF adjust
                        THEN [form EXCEPT !.body = adjust_body_string(form.body, separation)]
                        ELSE form,
               !.separation = separation,
               !.timeout = timeout]

\* wait_ack returning at once, without reading an ack
wait_ack_no_wait(inbound, start, t) ==
    [blocked |-> FALSE, err |-> "", data |-> ACK, rest |-> inbound]

\* wait_ack reading three bytes and not comparing them with 'ack'
wait_ack_unchecked(inbound, start, t) ==
    IF Len(inbound) < 3
    THEN [blocked |-> TRUE, err |-> "", data |-> <<>>, rest |-> inbound]
    ELSE [blocked |-> FALSE, err |-> "", data |-> SliceTo(inbound, 3),
          rest |-> SliceFrom(inbound, 3)]

\* FormTransmitterThread.wait_ack: receive_length_bytes is called with the
\* length alone
wait_ack(inbound, start, t) ==
    LET r == call_receive_length_bytes(inbound, <<3>>, start, t)
    IN IF r.blocked \/ r.err # "" THEN r
       ELSE IF r.data # ACK THEN [r EXCEPT !.err = "ValueError"]
       ELSE r

\* The order of the statements of FormTransmitterThread.run and of the loop of
\* send_body: the thread after the wait_ack it is in has returned
Transmitter_run(self) ==
    CASE self.pc = "wait_ack_title" -> [self EXCEPT !.pc = "send_line", !.line = 1]
      [] self.pc = "wait_ack_line" ->
           IF self.line < Len(Split(self.form.body))
           THEN [self EXCEPT !.pc = "send_line", !.line = self.line + 1]
           ELSE [self EXCEPT !.pc = "send_separator"]
      [] self.pc = "wait_ack_body" -> [self EXCEPT !.pc = "send_appendix"]
      [] self.pc = "wait_ack_appendix" ->
           [self EXCEPT !.pc = "done", !.running = FALSE, !.finished = TRUE]
      [] OTHER -> self

\* The next statement of FormTransmitterThread.run (with send_title,
\* send_body and send_appendix inlined): the thread `self` with the streams
\* out (written) and inbound (read).  enabled is false where the thread is
\* blocked or has ended.
TransmitterRun(self, out, inbound, t) ==
    LET lines == Split(self.form.body)
        w == wait_ack(inbound, self.start, t)
        after == Transmitter_run(self)
    IN CASE self.pc = "send_title" ->
              [enabled |-> TRUE,
               self |-> [self EXCEPT !.pc = "wait_ack_title", !.running = TRUE, !.start = t],
               out |-> out \o self.form.title \o <<NL>>, inbound |-> inbound]
         [] self.pc = "send_line" ->
              [enabled |-> TRUE,
               self |-> [self EXCEPT !.pc = "wait_ack_line", !.start = t],
               out |-> out \o lines[self.line] \o <<NL>>, inbound |-> inbound]
         [] self.pc = "send_separator" ->
              [enabled |-> TRUE,
               self |-> [self EXCEPT !.pc = "wait_ack_body", !.start = t],
               out |-> out \o assemble_separator(self.form, self.separation) \o <<NL>>,
               inbound |-> inbound]
         [] self.pc = "send_appendix" ->
              [enabled |-> TRUE,
               self |-> [self EXCEPT !.pc = "wait_ack_appendix", !.start = t],
               out |-> out \o self.form.appendix_encoded, inbound |-> inbound]
         [] self.pc \in {"wait_ack_title", "wait_ack_line", "wait_ack_body", "wait_ack_appendix"} ->
              IF w.blocked
              THEN [enabled |-> FALSE, self |-> self, out |-> out, inbound |-> inbound]
              ELSE IF w.err # ""
              THEN [enabled |-> TRUE, self |-> [self EXCEPT !.pc = "error", !.error = w.err],
                    out |-> out, inbound |-> w.rest]
              ELSE [enabled |-> TRUE, self |-> after, out |-> out, inbound |-> w.rest]
         [] OTHER -> [enabled |-> FALSE, self |-> self, out |-> out, inbound |-> inbound]

(***************************************************************************)
(* FormReceiverThread.                                                     *)
(***************************************************************************)
\* checkup_separation taking a line as long as the token for the separator
checkup_separation_not_shorter(line, separation) ==
    IF Len(line) >= Len(separation)
    THEN SliceTo(line, Len(separation)) = separation
    ELSE FALSE

\* FormReceiverThread.checkup_separation
checkup_separation(line, separation) ==
    IF Len(line) > Len(separation)
    THEN SliceTo(line, Len(separation)) = separation
    ELSE FALSE

\* FormReceiverThread.check_separation, for a str line
Receiver_check_separation(line, separation) ==
    IF ~checkup_separation(line, separation) THEN "ValueError" ELSE ""

\* FormReceiverThread.process_separation: the appendix length, or the
\* exception raised
process_separation(line, separation) ==
    LET c == Receiver_check_separation(line, separation)
        length_string == Remove(line, separation)
        length == PyInt(length_string)
    IN IF c # "" THEN [err |-> c, appendix_length |-> 0]
       ELSE [err |-> length.err, appendix_length |-> length.v]

\* FormReceiverThread.check_form
Receiver_check_form(self) ==
    IF IsNone(self.title) \/ IsNone(self.body) \/ IsNone(self.appendix)
    THEN "ValueError"
    ELSE ""

\* FormReceiverThread.assemble_form: the Form, or the exception raised
assemble_form(self) ==
    IF Receiver_check_form(self) # "" THEN [err |-> Receiver_check_form(self), form |-> NoForm]
    ELSE Form(self.title[1], self.body[1], BytesVal(self.appendix[1]))

\* receive_form returning self.form at once
receive_form_no_wait(self) == [blocked |-> FALSE, form |-> self.form]

\* FormReceiverThread.receive_form: sleeps while finished is not set, then
\* returns self.form
receive_form(self) == [blocked |-> ~self.finished, form |-> self.form]

NoReceiver ==
    [pc |-> "new", separation |-> <<>>, timeout |-> 0, running |-> FALSE,
     finished |-> FALSE, appendix_length |-> None, title |-> None, body |-> None,
     appendix |-> None, form |-> None, error |-> "", line_list |-> <<>>, start |-> 0]

\* FormReceiverThread.__init__
FormReceiverThread(separation, timeout) ==
    [NoReceiver EXCEPT !.pc = "run", !.separation = separation, !.timeout = timeout]

\* run without the send_ack between receive_body and receive_appendix
Receiver_run_no_body_ack(statement) ==
    CASE statement = "run" -> "receive_title"
      [] statement = "receive_title" -> "send_ack_title"
      [] statement = "send_ack_title" -> "receive_body"
      [] statement = "send_ack_line" -> "receive_body"
      [] statement = "receive_body" -> "receive_appendix"
      [] statement = "receive_appendix" -> "send_ack_appendix"
      [] statement = "send_ack_appendix" -> "assemble_form"
      [] statement = "assemble_form" -> "done"
      [] OTHER -> statement

\* The order of the statements of FormReceiverThread.run: the statement that
\* follows `statement` ("send_ack_line" is the send_ack in the loop of
\* receive_body, which goes back to the loop's receive_line)
Receiver_run(statement) ==
    CASE statement = "run" -> "receive_title"
      [] statement = "receive_title" -> "send_ack_title"
      [] statement = "send_ack_title" -> "receive_body"
      [] statement = "send_ack_line" -> "receive_body"
      [] statement = "receive_body" -> "send_ack_body"
      [] statement = "send_ack_body" -> "receive_appendix"
      [] statement = "receive_appendix" -> "send_ack_appendix"
      [] statement = "send_ack_appendix" -> "assemble_form"
      [] statement = "assemble_form" -> "done"
      [] OTHER -> statement

\* The next statement of FormReceiverThread.run (with receive_title,
\* receive_body, receive_appendix and send_ack inlined): the thread `self`
\* with the streams inbound (read) and out (written).
ReceiverRun(self, inbound, out, t) ==
    LET l == receive_line(inbound, self.timeout, self.start, t)
        is_separation == checkup_separation(l.data, self.separation)
        p == process_separation(l.data, self.separation)
        a == receive_length_bytes(inbound,
                                  IF IsNone(self.appendix_length) THEN 0
                                  ELSE self.appendix_length[1],
                                  self.timeout, self.start, t)
        f == assemble_form(self)
        stay == [enabled |-> FALSE, self |-> self, inbound |-> inbound, out |-> out]
        raise(e, rest) == [enabled |-> TRUE, self |-> [self EXCEPT !.pc = "error", !.error = e],
                           inbound |-> rest, out |-> out]
        next == Receiver_run(self.pc)
        send_ack == [enabled |-> TRUE, self |-> [self EXCEPT !.pc = next, !.start = t],
                     inbound |-> inbound, out |-> out \o ACK]
    IN CASE self.pc = "run" ->
              [enabled |-> TRUE,
               self |-> [self EXCEPT !.pc = next, !.running = TRUE, !.start = t],
               inbound |-> inbound, out |-> out]
         [] self.pc = "receive_title" ->
              IF l.blocked THEN stay
              ELSE IF l.err # "" THEN raise(l.err, l.rest)
              ELSE [enabled |-> TRUE,
                    self |-> [self EXCEPT !.pc = next, !.title = Some(l.data)],
                    inbound |-> l.rest, out |-> out]
         [] self.pc = "send_ack_title" -> send_ack
         [] self.pc = "receive_body" ->
              IF l.blocked THEN stay
              ELSE IF l.err # "" THEN raise(l.err, l.rest)
              ELSE IF ~is_separation
              THEN [enabled |-> TRUE,
                    self |-> [self EXCEPT !.pc = "send_ack_line",
                                          !.line_list = Append(self.line_list, l.data)],
                    inbound |-> l.rest, out |-> out]
              ELSE IF p.err # "" THEN raise(p.err, l.rest)
              ELSE [enabled |-> TRUE,
                    self |-> [self EXCEPT !.pc = next,
                                          !.appendix_length = Some(p.appendix_length),
                                          !.body = Some(Join(self.line_list))],
                    inbound |-> l.rest, out |-> out]
         [] self.pc = "send_ack_line" -> send_ack
         [] self.pc = "send_ack_body" -> send_ack
         [] self.pc = "receive_appendix" ->
              IF a.blocked THEN stay
              ELSE IF a.err # "" THEN raise(a.err, a.rest)
              ELSE [enabled |-> TRUE,
                    self |-> [self EXCEPT !.pc = next,
                                          !.appendix = Some(a.data)],
                    inbound |-> a.rest, out |-> out]
         [] self.pc = "send_ack_appendix" -> send_ack
         [] self.pc = "assemble_form" ->
              IF f.err # "" THEN raise(f.err, inbound)
              ELSE [enabled |-> TRUE,
                    self |-> [self EXCEPT !.pc = next, !.form = Some(f.form),
                                          !.running = FALSE, !.finished = TRUE],
                    inbound |-> inbound, out |-> out]
         [] OTHER -> stay

(***************************************************************************)
(* CommandingForm and its subclasses CommandForm, ReturnForm and ErrorForm. *)
(* An object is a record of its attributes; class is the name of its class  *)
(* and form is None until CommandingForm.__init__ has set it.  A dict (the  *)
(* spec dict, a dict appendix) is the sequence of its <<key, value>> pairs. *)
(***************************************************************************)
COMMAND == <<"C", "O", "M", "M", "A", "N", "D">>
RETURN == <<"R", "E", "T", "U", "R", "N">>
ERROR == <<"E", "R", "R", "O", "R">>
CommandFormClass == <<"C", "o", "m", "m", "a", "n", "d", "F", "o", "r", "m">>
ReturnFormClass == <<"R", "e", "t", "u", "r", "n", "F", "o", "r", "m">>
ErrorFormClass == <<"E", "r", "r", "o", "r", "F", "o", "r", "m">>
FormWord == <<"F", "o", "r", "m">>
Key_command == <<"c", "o", "m", "m", "a", "n", "d">>
Key_pos_args == <<"p", "o", "s", "_", "a", "r", "g", "s">>
Key_kw_args == <<"k", "w", "_", "a", "r", "g", "s">>
Key_error == <<"e", "r", "r", "o", "r">>
Key_return == <<"r", "e", "t", "u", "r", "n">>
Key_type == <<"t", "y", "p", "e">>
Key_name == <<"n", "a", "m", "e">>
Key_message == <<"m", "e", "s", "s", "a", "g", "e">>
ValueErrorClass == <<"V", "a", "l", "u", "e", "E", "r", "r", "o", "r">>
KeyErrorClass == <<"K", "e", "y", "E", "r", "r", "o", "r">>

DictHas(d, key) == \E i \in 1..Len(d) : d[i][1] = key

DictGet(d, key) == d[CHOOSE i \in 1..Len(d) : d[i][1] = key][2]

\* d[key] = value
DictSet(d, key, value) ==
    IF DictHas(d, key)
    THEN [i \in 1..Len(d) |-> IF d[i][1] = key THEN <<key, value>> ELSE d[i]]
    ELSE Append(d, <<key, value>>)

\* obj[key] with a str key: KeyError for a dict without the key, TypeError
\* for an object that is not a dict
Subscript(obj, key) ==
    IF obj.k # "dict" THEN [err |-> "TypeError", v |-> NoneVal]
    ELSE IF ~DictHas(obj.xs, key) THEN [err |-> "KeyError", v |-> NoneVal]
    ELSE [err |-> "", v |-> DictGet(obj.xs, key)]

\* type(obj).__name__
TypeName(obj) ==
    CASE obj.k = "list" -> <<"l", "i", "s", "t">>
      [] obj.k = "int" -> <<"i", "n", "t">>
      [] obj.k = "str" -> <<"s", "t", "r">>
      [] obj.k = "dict" -> <<"d", "i", "c", "t">>
      [] obj.k = "bytes" -> <<"b", "y", "t", "e", "s">>
      [] obj.k = "exc" -> obj.xs
      [] OTHER -> <<"N", "o", "n", "e", "T", "y", "p", "e">>

\* str(type(obj)): <class 'name'>
TypeString(obj) ==
    <<"<", "c", "l", "a", "s", "s", SP, "'">> \o TypeName(obj) \o <<"'", ">">>

\* JsonAppendixEncoder.is_serializable
is_serializable(obj) == encode(obj).err = ""

NoCommandingForm ==
    [class |-> <<>>, form |-> None, spec |-> <<>>, command_name |-> <<>>,
     pos_args |-> NoneVal, key_args |-> NoneVal, error_handle |-> <<>>,
     return_handle |-> <<>>, return_value |-> NoneVal, return_type |-> <<>>,
     exception |-> NoneVal]

\* CommandingForm.type
type(self) == Upper(Remove(self.class, FormWord))

\* CommandingForm.assemble_body_line
assemble_body_line(key, value) == key \o <<":">> \o value

\* CommandingForm.procure_body_lines_split: the body is split with split()
procure_body_lines_split(body) ==
    CHOOSE r \in
      {IF \E i \in 1..Len(body_lines_split) : Len(body_lines_split[i]) # 2
       THEN [err |-> "ValueError", lines |-> <<>>]
       ELSE [err |-> "", lines |-> body_lines_split] :
       body_lines_split \in
         {[i \in 1..Len(body_lines) |-> SplitOn(body_lines[i], ":")] :
          body_lines \in {SplitWs(body)}}} : TRUE

RECURSIVE DictOfLines(_, _)
DictOfLines(lines, body_dict) ==
    IF Len(lines) = 0 THEN body_dict
    ELSE DictOfLines(Tail(lines), DictSet(body_dict, lines[1][1], lines[1][2]))

\* CommandingForm.procure_body_dict_raw
procure_body_dict_raw(body) ==
    CHOOSE r \in
      {IF l.err # "" THEN [err |-> l.err, dict |-> <<>>]
       ELSE [err |-> "", dict |-> DictOfLines(l.lines, <<>>)] :
       l \in {procure_body_lines_split(body)}} : TRUE

\* CommandingForm.__init__
CommandingForm(self, form) ==
    CHOOSE r \in
      {[err |-> d.err, self |-> [self EXCEPT !.form = Some(form), !.spec = d.dict]] :
       d \in {procure_body_dict_raw(form.body)}} : TRUE

\* CommandingForm.check_type
check_type(self) == IF self.form[1].title # type(self) THEN "TypeError" ELSE ""

\* CommandingForm.check_spec_key
check_spec_key(self, key) == IF ~DictHas(self.spec, key) THEN "AttributeError" ELSE ""

\* CommandingForm.appendix_encoder: a property of self.form
appendix_encoder(self) == IF IsNone(self.form) THEN "AttributeError" ELSE ""

\* CommandingForm.build_form, given what procure_form_body and
\* procure_form_appendix returned
build_form(self, body, appendix) ==
    IF body.err # "" THEN [err |-> body.err, form |-> NoForm]
    ELSE IF appendix.err # "" THEN [err |-> appendix.err, form |-> NoForm]
    ELSE Form(type(self), Join(body.lines), appendix.v)

(***************************************************************************)
(* CommandForm.                                                            *)
(***************************************************************************)
\* the default of the parameters return_handle and error_handle
Reply == <<"r", "e", "p", "l", "y">>

\* CommandForm.procure_form_spec
procure_form_spec(self) ==
    LET l == PyLen(self.pos_args)
        error == DictSet(<<>>, Key_error, self.error_handle)
        return == DictSet(error, Key_return, self.return_handle)
        command == DictSet(return, Key_command, self.command_name)
    IN IF l.err # "" THEN [err |-> l.err, dict |-> <<>>]
       ELSE [err |-> "", dict |-> DictSet(command, Key_pos_args, StrOfInt(l.v))]

\* CommandForm.procure_form_body
CommandForm_procure_form_body(self) ==
    LET spec == procure_form_spec(self)
    IN IF spec.err # "" THEN [err |-> spec.err, lines |-> <<>>]
       ELSE [err |-> "",
             lines |-> [i \in 1..Len(spec.dict) |->
                          spec.dict[i][1] \o <<":">> \o spec.dict[i][2]]]

\* CommandForm.procure_form_appendix
CommandForm_procure_form_appendix(self) ==
    [err |-> "",
     v |-> DictVal(<< <<Key_pos_args, self.pos_args>>, <<Key_kw_args, self.key_args>> >>)]

\* CommandForm.procure_command_name
procure_command_name(self) ==
    IF check_spec_key(self, Key_command) # ""
    THEN [err |-> check_spec_key(self, Key_command), v |-> <<>>]
    ELSE [err |-> "", v |-> Strip(DictGet(self.spec, Key_command))]

\* CommandForm.check_pos_args
check_pos_args(self) ==
    IF check_spec_key(self, Key_pos_args) # "" THEN check_spec_key(self, Key_pos_args)
    ELSE IF PyInt(Strip(DictGet(self.spec, Key_pos_args))).err # "" THEN "TypeError"
    ELSE ""

\* CommandForm.procure_positional_args
procure_positional_args(self) ==
    LET pos_args == Subscript(self.form[1].appendix, Key_pos_args)
    IN IF check_pos_args(self) # "" THEN [err |-> check_pos_args(self), v |-> NoneVal]
       ELSE IF pos_args.err # "" THEN pos_args
       ELSE IF pos_args.v.k # "list" THEN [err |-> "TypeError", v |-> NoneVal]
       ELSE pos_args

\* CommandForm.procure_keyword_args
procure_keyword_args(self) ==
    LET kw_args == Subscript(self.form[1].appendix, Key_kw_args)
    IN IF kw_args.err # "" THEN kw_args
       ELSE IF kw_args.v.k # "dict" THEN [err |-> "TypeError", v |-> NoneVal]
       ELSE kw_args

\* CommandForm.procure_error_handle
procure_error_handle(self) ==
    IF check_spec_key(self, Key_error) # ""
    THEN [err |-> check_spec_key(self, Key_error), v |-> <<>>]
    ELSE [err |-> "", v |-> DictGet(self.spec, Key_error)]

\* CommandForm.procure_return_handle
procure_return_handle(self) ==
    IF check_spec_key(self, Key_return) # ""
    THEN [err |-> check_spec_key(self, Key_return), v |-> <<>>]
    ELSE [err |-> "", v |-> DictGet(self.spec, Key_return)]

\* CommandForm.__init__: from a Form, or from the command name and its
\* arguments; an object that is neither a Form nor a str sets no attribute
CommandForm(command, pos_args, kw_args, return_handle, error_handle) ==
    LET new == [NoCommandingForm EXCEPT !.class = CommandFormClass]
        raise(e, self) == [err |-> e, self |-> self]
    IN IF command.k = "Form"
       THEN CHOOSE r \in
              {LET self == c.self
                   name == procure_command_name(self)
                   pos == procure_positional_args(self)
                   key == procure_keyword_args(self)
                   error == procure_error_handle(self)
                   return == procure_return_handle(self)
               IN IF c.err # "" THEN c
                  ELSE IF check_type(self) # "" THEN raise(check_type(self), self)
                  ELSE IF name.err # "" THEN raise(name.err, self)
                  ELSE IF pos.err # "" THEN raise(pos.err, self)
                  ELSE IF key.err # "" THEN raise(key.err, self)
                  ELSE IF error.err # "" THEN raise(error.err, self)
                  ELSE IF return.err # "" THEN raise(return.err, self)
                  ELSE [err |-> "",
                        self |-> [self EXCEPT !.command_name = name.v, !.pos_args = pos.v,
                                              !.key_args = key.v, !.error_handle = error.v,
                                              !.return_handle = return.v]] :
               c \in {CommandingForm(new, command.xs)}} : TRUE
       ELSE IF command.k = "str"
       THEN LET self == [new EXCEPT !.command_name = command.s, !.pos_args = pos_args,
                                    !.key_args = kw_args, !.error_handle = error_handle,
                                    !.return_handle = return_handle]
            IN CHOOSE r \in
                 {IF f.err # "" THEN raise(f.err, self) ELSE CommandingForm(self, f.form) :
                  f \in {build_form(self, CommandForm_procure_form_body(self),
                                    CommandForm_procure_form_appendix(self))}} : TRUE
       ELSE [err |-> "", self |-> new]

(***************************************************************************)
(* ReturnForm.                                                             *)
(***************************************************************************)
\* ReturnForm.procure_return_type_string
procure_return_type_string(self) == TypeString(self.return_value)

\* ReturnForm.procure_form_body
ReturnForm_procure_form_body(self) ==
    [err |-> "", lines |-> <<Key_type \o <<":">> \o self.return_type>>]

\* ReturnForm.procure_form_appendix
ReturnForm_procure_form_appendix(self) ==
    [err |-> "", v |-> DictVal(<< <<Key_return, self.return_value>> >>)]

\* ReturnForm.check_appendix
ReturnForm_check_appendix(self) ==
    IF self.form[1].appendix.k # "dict" \/ ~DictHas(self.form[1].appendix.xs, Key_return)
    THEN "TypeError"
    ELSE ""

\* ReturnForm.procure_return_value
procure_return_value(self) ==
    IF ReturnForm_check_appendix(self) # ""
    THEN [err |-> ReturnForm_check_appendix(self), v |-> NoneVal]
    ELSE Subscript(self.form[1].appendix, Key_return)

\* ReturnForm.__init__: from a Form, or from the value to return
ReturnForm(return_value) ==
    LET new == [NoCommandingForm EXCEPT !.class = ReturnFormClass]
        raise(e, self) == [err |-> e, self |-> self]
    IN IF return_value.k = "Form"
       THEN CHOOSE r \in
              {LET self == c.self
                   value == procure_return_value(self)
               IN IF c.err # "" THEN c
                  ELSE IF check_type(self) # "" THEN raise(check_type(self), self)
                  ELSE IF value.err # "" THEN raise(value.err, self)
                  ELSE [err |-> "", self |-> [self EXCEPT !.return_value = value.v]] :
               c \in {CommandingForm(new, return_value.xs)}} : TRUE
       ELSE LET valued == [new EXCEPT !.return_value = return_value]
                self == [valued EXCEPT !.return_type = procure_return_type_string(valued)]
            IN CHOOSE r \in
                 {IF f.err # "" THEN raise(f.err, self) ELSE CommandingForm(self, f.form) :
                  f \in {build_form(self, ReturnForm_procure_form_body(self),
                                    ReturnForm_procure_form_appendix(self))}} : TRUE

(***************************************************************************)
(* ErrorForm.                                                              *)
(***************************************************************************)
\* the exception classes the names in the model's Forms can name
ExceptionClasses == {ValueErrorClass, KeyErrorClass}
Builtin_str == <<"s", "t", "r">>
Builtin_len == <<"l", "e", "n">>

\* eval("name('message')"), for a name that is empty or an identifier and a
\* message with at most one quote and no backslash: the expression is
\* evaluated as Python, so it is the call of whatever the name is bound to
\* (an exception class, or any other builtin such as str or len), the
\* parenthesised string itself under the empty name, NameError for a name
\* that is not bound, SyntaxError when the quote ends the literal early
eval(exception_name, exception_message) ==
    IF Contains(exception_message, "'") THEN [err |-> "SyntaxError", v |-> NoneVal]
    ELSE IF exception_name \in ExceptionClasses
    THEN [err |-> "", v |-> ExcVal(exception_name, exception_message)]
    ELSE IF exception_name \in {<<>>, Builtin_str}
    THEN [err |-> "", v |-> StrVal(exception_message)]
    ELSE IF exception_name = Builtin_len
    THEN [err |-> "", v |-> IntVal(Len(exception_message))]
    ELSE [err |-> "NameError", v |-> NoneVal]

\* ErrorForm.procure_form_appendix: appendix_encoder is read from self.form
ErrorForm_procure_form_appendix(self) ==
    IF appendix_encoder(self) # "" THEN [err |-> appendix_encoder(self), v |-> NoneVal]
    ELSE IF is_serializable(self.exception)
    THEN [err |-> "", v |-> DictVal(<< <<Key_error, self.exception>> >>)]
    ELSE [err |-> "", v |-> DictVal(<<>>)]

\* ErrorForm.procure_form_body
ErrorForm_procure_form_body(self) ==
    LET exception_name == TypeName(self.exception)
        exception_message == Remove(self.exception.s, <<NL>>)
    IN [err |-> "",
        lines |-> <<assemble_body_line(Key_name, exception_name),
                    assemble_body_line(Key_message, exception_message)>>]

\* ErrorForm.procure_exception
procure_exception(self) ==
    LET l == PyLen(self.form[1].appendix)
    IN IF l.err # "" THEN [err |-> l.err, v |-> NoneVal]
       ELSE IF l.v = 0
       THEN IF ~DictHas(self.spec, Key_name) \/ ~DictHas(self.spec, Key_message)
            THEN [err |-> "KeyError", v |-> NoneVal]
            ELSE eval(DictGet(self.spec, Key_name), DictGet(self.spec, Key_message))
       ELSE Subscript(self.form[1].appendix, Key_error)

\* ErrorForm.__init__: from an exception, or from a Form
ErrorForm(exception) ==
    LET new == [NoCommandingForm EXCEPT !.class = ErrorFormClass]
        raise(e, self) == [err |-> e, self |-> self]
    IN IF exception.k = "exc"
       THEN LET self == [new EXCEPT !.exception = exception]
            IN CHOOSE r \in
                 {IF f.err # "" THEN raise(f.err, self) ELSE CommandingForm(self, f.form) :
                  f \in {build_form(self, ErrorForm_procure_form_body(self),
                                    ErrorForm_procure_form_appendix(self))}} : TRUE
       ELSE IF exception.k = "Form"
       THEN CHOOSE r \in
              {LET self == c.self
                   e == procure_exception(self)
               IN IF c.err # "" THEN c
                  ELSE IF check_type(self) # "" THEN raise(check_type(self), self)
                  ELSE IF e.err # "" THEN raise(e.err, self)
                  ELSE [err |-> "", self |-> [self EXCEPT !.exception = e.v]] :
               c \in {CommandingForm(new, exception.xs)}} : TRUE
       ELSE raise("TypeError", new)

(***************************************************************************)
(* CommandContext.  The context object of the model is an instance of a    *)
(* subclass that defines three commands:                                   *)
(*     def command_g(self, *args, **kwargs): return list(args)             *)
(*     def command_f(self, *args, **kwargs): raise ValueError()            *)
(*     def command_o(self, x): return x                                    *)
(* A method is named by its attribute name.  execute_form returns err, the *)
(* value v, and calls: the calls it made, each the method with the         *)
(* positional and the keyword arguments it was called with.                *)
(***************************************************************************)
CommandPrefix == <<"c", "o", "m", "m", "a", "n", "d", "_">>

\* CommandContext.assemble_command_name
assemble_command_name(command_name) == CommandPrefix \o command_name

command_g == assemble_command_name(<<"g">>)
command_f == assemble_command_name(<<"f">>)
command_o == assemble_command_name(<<"o">>)

\* getattr(self, name) for a name that begins with command_: CommandContext
\* itself has no such attribute
getattr(name) ==
    IF name \in {command_g, command_f, command_o} THEN [err |-> "", v |-> name]
    ELSE [err |-> "AttributeError", v |-> <<>>]

\* CommandContext.lookup_command: the AttributeError is caught and raised again
lookup_command(command_name) == getattr(assemble_command_name(command_name))

\* the call command(*pos_args, **key_args): command_o takes one positional
\* argument and no keyword
Call(command, pos_args, key_args) ==
    IF command = command_g THEN [err |-> "", v |-> ListVal(pos_args.xs)]
    ELSE IF command = command_f THEN [err |-> "ValueError", v |-> NoneVal]
    ELSE IF Len(pos_args.xs) # 1 \/ Len(key_args.xs) # 0
    THEN [err |-> "TypeError", v |-> NoneVal]
    ELSE [err |-> "", v |-> IntVal(pos_args.xs[1])]

\* execute_form calling the command with the positional arguments only
execute_form_positional(form) ==
    IF form.class \in {CommandFormClass, ReturnFormClass, ErrorFormClass}
    THEN IF form.class = CommandFormClass
         THEN LET command == lookup_command(form.command_name)
                  r == Call(command.v, form.pos_args, DictVal(<<>>))
              IN IF command.err # "" THEN [err |-> command.err, v |-> NoneVal, calls |-> <<>>]
                 ELSE [err |-> r.err, v |-> r.v,
                       calls |-> << <<command.v, form.pos_args, DictVal(<<>>)>> >>]
         ELSE IF form.class = ReturnFormClass
         THEN [err |-> "", v |-> form.return_value, calls |-> <<>>]
         ELSE [err |-> "", v |-> NoneVal, calls |-> <<>>]
    ELSE [err |-> "TypeError", v |-> NoneVal, calls |-> <<>>]

\* CommandContext.execute_form: an ErrorForm falls through both branches and
\* None is returned
execute_form(form) ==
    IF form.class \in {CommandFormClass, ReturnFormClass, ErrorFormClass}
    THEN IF form.class = CommandFormClass
         THEN LET command == lookup_command(form.command_name)
                  r == Call(command.v, form.pos_args, form.key_args)
              IN IF command.err # "" THEN [err |-> command.err, v |-> NoneVal, calls |-> <<>>]
                 ELSE [err |-> r.err, v |-> r.v,
                       calls |-> << <<command.v, form.pos_args, form.key_args>> >>]
         ELSE IF form.class = ReturnFormClass
         THEN [err |-> "", v |-> form.return_value, calls |-> <<>>]
         ELSE [err |-> "", v |-> NoneVal, calls |-> <<>>]
    ELSE [err |-> "TypeError", v |-> NoneVal, calls |-> <<>>]

(***************************************************************************)
(* CommandingBase.                                                         *)
(***************************************************************************)
\* evaluate_commanding_form comparing the title without regard to case
evaluate_commanding_form_upper(form) ==
    IF form.k # "Form" THEN [err |-> "TypeError", self |-> NoCommandingForm]
    ELSE IF Upper(form.xs.title) = COMMAND
    THEN CommandForm(form, ListVal(<<>>), DictVal(<<>>), Reply, Reply)
    ELSE IF Upper(form.xs.title) = RETURN THEN ReturnForm(form)
    ELSE IF Upper(form.xs.title) = ERROR THEN ErrorForm(form)
    ELSE [err |-> "ValueError", self |-> NoCommandingForm]

\* CommandingBase.evaluate_commanding_form
evaluate_commanding_form(form) ==
    IF form.k # "Form" THEN [err |-> "TypeError", self |-> NoCommandingForm]
    ELSE IF form.xs.title = COMMAND
    THEN CommandForm(form, ListVal(<<>>), DictVal(<<>>), Reply, Reply)
    ELSE IF form.xs.title = RETURN THEN ReturnForm(form)
    ELSE IF form.xs.title = ERROR THEN ErrorForm(form)
    ELSE [err |-> "ValueError", self |-> NoCommandingForm]

\* the default of the parameter timeout of the two thread classes
DefaultTimeout == 10

(***************************************************************************)
(* CommandingBase and CommandingHandler.  The handler object is a record   *)
(* of its attributes and of the local variables of run; connection names   *)
(* the class of its connection and command_context the class of its        *)
(* context.  error is the exception that ended run, caught the exception   *)
(* an except clause of run has caught last.  link is the state of the      *)
(* connection: "open", "eof" once the peer has closed it, "reset" once the *)
(* peer has reset it; after a reset every recv() and sendall() of the      *)
(* socket raises a ConnectionError, after a close recv() returns the bytes *)
(* that are left and then b''.                                             *)
(***************************************************************************)
REQUEST == <<"r", "e", "q", "u", "e", "s", "t">>

\* str(cls) for a class named name
StrOfClass(name) == <<"<", "c", "l", "a", "s", "s", SP, "'">> \o name \o <<"'", ">">>

\* isinstance(e, ConnectionError)
IsConnectionError(e) ==
    e \in {"ConnectionAbortedError", "ConnectionResetError", "BrokenPipeError"}

\* SocketConnection.sendall_bytes
sendall_bytes(out, bytes_string, link) ==
    IF link = "reset" THEN [err |-> "BrokenPipeError", out |-> out]
    ELSE [err |-> "", out |-> out \o bytes_string]

\* SocketConnection.wait_bytes_until_byte: at the end of the stream the
\* message of the EOFError is formatted with len(bytes), bytes being the
\* builtin type, which raises TypeError
wait_bytes_until_byte(inbound, byte, link) ==
    LET i == IndexOf(inbound, byte, 1)
    IN IF link = "reset"
       THEN [blocked |-> FALSE, err |-> "ConnectionResetError", data |-> <<>>, rest |-> inbound]
       ELSE IF i # 0
       THEN [blocked |-> FALSE, err |-> "", data |-> SubSeq(inbound, 1, i - 1),
             rest |-> SliceFrom(inbound, i)]
       ELSE IF link = "eof"
       THEN [blocked |-> FALSE, err |-> "TypeError", data |-> <<>>, rest |-> <<>>]
       ELSE [blocked |-> TRUE, err |-> "", data |-> <<>>, rest |-> inbound]

\* the call connection.receive_line() of validate, without the timeout:
\* SocketConnection.receive_line(timeout) has no default, so the call raises
\* TypeError; another implementation of Connection whose receive_line has a
\* default timeout reads a line
call_receive_line(connection, inbound, link) ==
    IF connection = "SocketConnection"
    THEN [blocked |-> FALSE, err |-> "TypeError", data |-> <<>>, rest |-> inbound]
    ELSE wait_bytes_until_byte(inbound, NL, link)

NoHandler ==
    [pc |-> "new", connection |-> "", separation |-> <<>>, command_context |-> <<>>,
     running |-> FALSE, error |-> "", caught |-> "", client_command_context |-> None,
     line_string |-> None, form |-> None]

\* CommandingHandler.__init__: CommandingBase.__init__(connection) is called
\* without self, which raises TypeError
CommandingHandler(connection, command_context) ==
    [NoHandler EXCEPT !.pc = "raised", !.error = "TypeError"]

\* an object of a subclass of CommandingHandler whose __init__ assigns the
\* attributes itself
SubclassHandler(connection, separation, command_context) ==
    [NoHandler EXCEPT !.pc = "validate", !.connection = connection,
                      !.separation = separation, !.command_context = command_context,
                      !.running = TRUE]

\* wait_request taking every line for a request
wait_request_any(line_string) == ""

\* CommandingBase.wait_request: the check of the line wait_line returned
wait_request(line_string) == IF line_string # REQUEST THEN "ValueError" ELSE ""

\* CommandingHandler.command_context_class
command_context_class(self) == self.command_context

\* The next statement of CommandingHandler.run (with validate, wait_request,
\* send_command_context_type, wait_line and send_ack inlined): the handler
\* `self` with the streams inbound (read) and out (written), the state of the
\* connection and the receiver thread.  An exception either is caught by one
\* of the two except clauses, and the outer loop starts validate again, or
\* ends run.
HandlerRun(self, inbound, out, link, receiver) ==
    LET stay == [enabled |-> FALSE, self |-> self, inbound |-> inbound, out |-> out,
                 receiver |-> receiver]
        raised(me, e, rest) ==
            [enabled |-> TRUE,
             self |-> IF IsConnectionError(e)
                      THEN [me EXCEPT !.pc = "validate", !.caught = e]
                      ELSE [me EXCEPT !.pc = "error", !.error = e],
             inbound |-> rest, out |-> out, receiver |-> receiver]
        raise(e, rest) == raised(self, e, rest)
        go(next, rest, written) ==
            [enabled |-> TRUE, self |-> next, inbound |-> rest, out |-> written,
             receiver |-> receiver]
        sent == sendall_bytes(out, StrOfClass(command_context_class(self)), link)
        client == call_receive_line(self.connection, inbound, link)
        line == wait_bytes_until_byte(inbound, NL, link)
        ack == sendall_bytes(out, ACK \o <<NL>>, link)
    IN CASE self.pc = "validate" ->
              IF sent.err # "" THEN raise(sent.err, inbound)
              ELSE go([self EXCEPT !.pc = "receive_line"], inbound, sent.out)
         [] self.pc = "receive_line" ->
              IF client.blocked THEN stay
              ELSE IF client.err # "" THEN raise(client.err, client.rest)
              ELSE IF StrOfClass(command_context_class(self)) # client.data
              THEN raised([self EXCEPT !.client_command_context = Some(client.data)],
                          "ConnectionAbortedError", client.rest)
              ELSE go([self EXCEPT !.pc = "wait_request",
                                   !.client_command_context = Some(client.data)],
                      client.rest, out)
         [] self.pc = "wait_request" ->
              IF line.blocked THEN stay
              ELSE IF line.err # "" THEN raise(line.err, line.rest)
              ELSE IF wait_request(line.data) # ""
              THEN raised([self EXCEPT !.line_string = Some(line.data)],
                          wait_request(line.data), line.rest)
              ELSE go([self EXCEPT !.pc = "send_ack", !.line_string = Some(line.data)],
                      line.rest, out)
         [] self.pc = "send_ack" ->
              IF ack.err # "" THEN raise(ack.err, inbound)
              ELSE go([self EXCEPT !.pc = "start"], inbound, ack.out)
         [] self.pc = "start" ->
              [enabled |-> TRUE, self |-> [self EXCEPT !.pc = "receive_form"],
               inbound |-> inbound, out |-> out,
               receiver |-> FormReceiverThread(self.separation, DefaultTimeout)]
         [] self.pc = "receive_form" ->
              IF receive_form(receiver).blocked THEN stay
              ELSE go([self EXCEPT !.pc = "wait_request",
                                   !.form = receive_form(receiver).form],
                      inbound, out)
         [] OTHER -> stay

(***************************************************************************)
(* SocketWrapper.  The object is a record of its attribute connected, the  *)
(* position of a call of connect, the call's parameters attempts and delay *)
(* (attempts is also the local counter), the number of calls of            *)
(* sock.connect made, and the exception the call ended with.               *)
(***************************************************************************)
NoWrapper ==
    [pc |-> "new", connected |-> FALSE, attempts |-> 0, delay |-> 0, given |-> 0,
     tries |-> 0, error |-> ""]

\* SocketWrapper.__init__
SocketWrapper(connected) == [NoWrapper EXCEPT !.pc = "idle", !.connected = connected]

\* the condition of the loop of SocketWrapper.connect
connect_goes_on(self) == ~self.connected

\* The next statement of SocketWrapper.connect(ip, port, attempts, delay) for
\* a str ip and a port in range; refused tells whether this sock.connect fails
connect(self, attempts, delay, refused) ==
    CASE self.pc = "idle" ->
           IF ~(0 <= attempts)
           THEN [self EXCEPT !.pc = "raised", !.error = "AssertionError",
                             !.given = attempts, !.delay = delay]
           ELSE [self EXCEPT !.pc = "while", !.attempts = attempts, !.given = attempts,
                             !.delay = delay]
      [] self.pc = "while" ->
           IF connect_goes_on(self) THEN [self EXCEPT !.pc = "sleep"]
           ELSE [self EXCEPT !.pc = "if"]
      [] self.pc = "sleep" -> [self EXCEPT !.pc = "sock.connect"]
      [] self.pc = "sock.connect" ->
           IF refused
           THEN [self EXCEPT !.pc = "while", !.connected = FALSE,
                             !.attempts = self.attempts - 1, !.tries = self.tries + 1]
           ELSE [self EXCEPT !.pc = "while", !.connected = TRUE, !.tries = self.tries + 1]
      \* self.attempts: the object has no such attribute
      [] self.pc = "if" -> [self EXCEPT !.pc = "raised", !.error = "AttributeError"]
      [] OTHER -> self

(***************************************************************************)
(* The state machine.  tx and rx are the two thread objects, t2r and r2t   *)
(* the two directions of the connection between them, now the clock.       *)
(* harness records the arguments the Form and the transmitter were built   *)
(* from, the number of chunks a scripted peer has written, and the         *)
(* separator line of the separator-line harness.  handler is the           *)
(* CommandingHandler object and harness.link the state of its connection;  *)
(* harness.peer is a second handler at the far end of the connection and   *)
(* wrapper the SocketWrapper object.                                       *)
(***************************************************************************)
Titles == {<<"T">>, <<SP>>}
BodyChars == {"a", "$", SP, NL}
Bodies == StrUpTo(BodyChars, MaxBodyLen)
Appendices == {ListVal(<<>>), ListVal(<<1, 2>>), IntVal(7), BytesVal(<<>>)}
SepChars == {"$", SP}
Separations == StrUpTo(SepChars, MaxSepLen)

NoHarness ==
    [title |-> <<>>, body |-> <<>>, appendix |-> NoneVal, separation |-> <<>>,
     adjust |-> FALSE, chunks |-> 0, line |-> None, length |-> None,
     form |-> None, empty |-> None, valid |-> None,
     call |-> "", args |-> <<>>, made |-> None, read |-> None, link |-> "open",
     appendix_encoder |-> "", peer |-> NoHandler]

Init ==
    /\ tx = NoTransmitter
    /\ rx = NoReceiver
    /\ t2r = <<>>
    /\ r2t = <<>>
    /\ now = 0
    /\ harness = NoHarness
    /\ handler = NoHandler
    /\ wrapper = NoWrapper

\* Form(title, body, appendix) followed by
\* FormTransmitterThread(connection, form, separation, timeout, adjust)
Construct(title, body, appendix, separation, timeout, adjust) ==
    /\ LET f == Form(title, body, appendix)
       IN tx' = IF f.err # ""
                THEN [NoTransmitter EXCEPT !.pc = "raised", !.error = f.err]
                ELSE FormTransmitterThread(f.form, separation, timeout, adjust)
    /\ harness' = [harness EXCEPT !.title = title, !.body = body,
                                  !.appendix = appendix, !.separation = separation,
                                  !.adjust = adjust]
    /\ UNCHANGED <<rx, t2r, r2t, now, handler, wrapper>>

ConstructTransmitter ==
    /\ tx.pc = "new"
    /\ \E title \in Titles, body \in Bodies, appendix \in Appendices,
          separation \in Separations, adjust \in BOOLEAN :
           Construct(title, body, appendix, separation, DefaultTimeout, adjust)

\* FormReceiverThread(connection, separation) on the other end of the
\* transmitter's connection, with the transmitter's separation
ConstructReceiver ==
    /\ rx.pc = "new"
    /\ tx.pc \notin {"new", "raised"}
    /\ rx' = FormReceiverThread(tx.separation, DefaultTimeout)
    /\ UNCHANGED <<tx, t2r, r2t, now, harness, handler, wrapper>>

\* one statement of the transmitter thread
TransmitterStep ==
    LET r == TransmitterRun(tx, t2r, r2t, now)
    IN /\ r.enabled
       /\ tx' = r.self
       /\ t2r' = r.out
       /\ r2t' = r.inbound
       /\ UNCHANGED <<rx, now, harness, handler, wrapper>>

\* one statement of the receiver thread
ReceiverStep ==
    LET r == ReceiverRun(rx, t2r, r2t, now)
    IN /\ r.enabled
       /\ rx' = r.self
       /\ t2r' = r.inbound
       /\ r2t' = r.out
       /\ UNCHANGED <<tx, now, harness, handler, wrapper>>

Next ==
    \/ ConstructTransmitter
    \/ ConstructReceiver
    \/ TransmitterStep
    \/ ReceiverStep

\* a transmitter and a receiver on the two ends of one connection
Spec == Init /\ [][Next]_vars

\* both threads are scheduled
FairSpec == Spec /\ WF_vars(TransmitterStep) /\ WF_vars(ReceiverStep)

(***************************************************************************)
(* A receiver whose peer is a script: the peer writes up to MaxChunks      *)
(* chunks, lines built around the receiver's separation and the raw bytes  *)
(* of an appendix, and never reads.                                        *)
(***************************************************************************)
RxSeparations == {<<"$">>, <<SP, "$">>}

PeerLines(separation) ==
    {<<"T">>, separation, separation \o <<"0">>, separation \o <<"2">>,
     separation \o separation, <<"0">> \o separation}

PeerChunks(separation) ==
    {line \o <<NL>> : line \in PeerLines(separation)} \cup {<<"[", "]">>}

\* FormReceiverThread(connection, separation)
ConstructReceiverAlone ==
    /\ rx.pc = "new"
    /\ \E separation \in RxSeparations :
          rx' = FormReceiverThread(separation, DefaultTimeout)
    /\ UNCHANGED <<tx, t2r, r2t, now, harness, handler, wrapper>>

\* the peer's sendall
PeerSend ==
    /\ rx.pc # "new"
    /\ harness.chunks < MaxChunks
    /\ \E chunk \in PeerChunks(rx.separation) : t2r' = t2r \o chunk
    /\ harness' = [harness EXCEPT !.chunks = harness.chunks + 1]
    /\ UNCHANGED <<tx, rx, r2t, now, handler, wrapper>>

NextRx ==
    \/ ConstructReceiverAlone
    \/ PeerSend
    \/ ReceiverStep

SpecRx == Init /\ [][NextRx]_vars

(***************************************************************************)
(* A transmitter whose peer is a script that writes up to MaxChunks        *)
(* three-byte replies, or none, while the clock advances.                  *)
(***************************************************************************)
NAK == <<"n", "a", "k">>
Timeouts == {1, 2}
TimedBodies == {<<>>, <<"a">>, <<"a", NL, "a">>}

ConstructTimed ==
    /\ tx.pc = "new"
    /\ \E title \in Titles, body \in TimedBodies, timeout \in Timeouts :
          Construct(title, body, ListVal(<<>>), <<"$">>, timeout, TRUE)

\* the peer's sendall
PeerReply ==
    /\ tx.pc \notin {"new", "raised"}
    /\ harness.chunks < MaxChunks
    /\ \E reply \in {ACK, NAK} : r2t' = r2t \o reply
    /\ harness' = [harness EXCEPT !.chunks = harness.chunks + 1]
    /\ UNCHANGED <<tx, rx, t2r, now, handler, wrapper>>

\* time passes
Tick ==
    /\ now < MaxTime
    /\ now' = now + 1
    /\ UNCHANGED <<tx, rx, t2r, r2t, harness, handler, wrapper>>

NextTx ==
    \/ ConstructTimed
    \/ TransmitterStep
    \/ PeerReply
    \/ Tick

SpecTx == Init /\ [][NextTx]_vars

(***************************************************************************)
(* The separator line alone: a transmitter for a Form whose encoded        *)
(* appendix has 0..MaxAppendixLen bytes assembles its separator line, and  *)
(* a receiver with the same separation processes that line.                *)
(***************************************************************************)
TokenChars == {"$", "1", "2", SP}
Tokens == {s \in StrUpTo(TokenChars, MaxTokenLen) : Transmitter_check_separation(s) = ""}
Blank(n) == [i \in 1..n |-> SP]

InitSep ==
    /\ \E n \in 0..MaxAppendixLen, separation \in Tokens :
          tx = FormTransmitterThread(Form(<<"T">>, <<"a">>, BytesVal(Blank(n))).form,
                                     separation, DefaultTimeout, TRUE)
    /\ rx = FormReceiverThread(tx.separation, DefaultTimeout)
    /\ t2r = <<>>
    /\ r2t = <<>>
    /\ now = 0
    /\ harness = NoHarness
    /\ handler = NoHandler
    /\ wrapper = NoWrapper

\* the transmitter's assemble_separator()
AssembleSeparator ==
    /\ IsNone(harness.line)
    /\ harness' = [harness EXCEPT !.line = Some(assemble_separator(tx.form, tx.separation))]
    /\ UNCHANGED <<tx, rx, t2r, r2t, now, handler, wrapper>>

\* the receiver's process_separation(line)
ProcessSeparation ==
    /\ ~IsNone(harness.line)
    /\ IsNone(harness.length)
    /\ harness' = [harness EXCEPT
                     !.length = Some(process_separation(harness.line[1], rx.separation))]
    /\ UNCHANGED <<tx, rx, t2r, r2t, now, handler, wrapper>>

NextSep ==
    \/ AssembleSeparator
    \/ ProcessSeparation

SpecSep == InitSep /\ [][NextSep]_vars

(***************************************************************************)
(* The constructor alone: FormTransmitterThread is constructed with any    *)
(* title, body, appendix and separation, tabs and newlines in the          *)
(* separation included, under both policies, and then started with nobody  *)
(* on the other end.                                                       *)
(***************************************************************************)
NewTitles == Titles \cup {<<>>}
NewBodyChars == {"a", "$", NL}
NewBodies == StrUpTo(NewBodyChars, MaxBodyLen)
NewSepChars == {"$", SP, TAB, NL}
NewSeparations == StrUpTo(NewSepChars, MaxSepLen)

ConstructAny ==
    /\ tx.pc = "new"
    /\ \E title \in NewTitles, body \in NewBodies, appendix \in Appendices,
          separation \in NewSeparations, adjust \in BOOLEAN :
           Construct(title, body, appendix, separation, DefaultTimeout, adjust)

NextNew ==
    \/ ConstructAny
    \/ TransmitterStep

SpecNew == Init /\ [][NextNew]_vars

(***************************************************************************)
(* The Form alone: a Form is constructed and its properties empty and      *)
(* valid are read.                                                         *)
(***************************************************************************)
FormTitles == {<<>>, <<"T">>, <<SP>>, <<SP, SP>>, <<SP, "T">>, <<TAB>>, <<"T", NL>>}
FormBodyChars == {"a", SP}
FormBodies == StrUpTo(FormBodyChars, MaxBodyLen)
FormAppendices ==
    Appendices \cup {StrVal(<<>>), StrVal(<<"a">>), BytesVal(<<SP>>), BytesVal(<<"[", "1", "]">>),
                     BytesVal(<<"[">>), StrVal(<<"[", "1", "]">>), StrVal(<<"[">>)}

\* form = Form(title, body, appendix)
NewForm ==
    /\ IsNone(harness.form)
    /\ \E title \in FormTitles, body \in FormBodies, appendix \in FormAppendices :
          harness' = [harness EXCEPT !.title = title, !.body = body, !.appendix = appendix,
                                     !.form = Some(Form(title, body, appendix))]
    /\ UNCHANGED <<tx, rx, t2r, r2t, now, handler, wrapper>>

\* form.empty
FormEmpty ==
    /\ ~IsNone(harness.form)
    /\ harness.form[1].err = ""
    /\ IsNone(harness.empty)
    /\ harness' = [harness EXCEPT !.empty = Some(empty(harness.form[1].form))]
    /\ UNCHANGED <<tx, rx, t2r, r2t, now, handler, wrapper>>

\* form.valid
FormValid ==
    /\ ~IsNone(harness.form)
    /\ harness.form[1].err = ""
    /\ IsNone(harness.valid)
    /\ harness' = [harness EXCEPT !.valid = Some(valid(harness.form[1].form))]
    /\ UNCHANGED <<tx, rx, t2r, r2t, now, handler, wrapper>>

NextForm ==
    \/ NewForm
    \/ FormEmpty
    \/ FormValid

SpecForm == Init /\ [][NextForm]_vars

(***************************************************************************)
(* A Form that has arrived is wrapped: by evaluate_commanding_form, or by   *)
(* the constructor of one of the three classes.  The Forms are the three    *)
(* well-formed ones and Forms with other titles, bodies of up to MaxLines   *)
(* lines with no, one and two ':', and other appendices.                    *)
(***************************************************************************)
CommandBody ==
    Join(<<assemble_body_line(Key_error, <<"e">>), assemble_body_line(Key_return, <<"r">>),
           assemble_body_line(Key_command, <<"g">>), assemble_body_line(Key_pos_args, <<"1">>)>>)
\* the body of a COMMAND Form whose count of positional arguments is -1
NegativeCommandBody ==
    Join(<<assemble_body_line(Key_error, <<"e">>), assemble_body_line(Key_return, <<"r">>),
           assemble_body_line(Key_command, <<"g">>),
           assemble_body_line(Key_pos_args, <<"-", "1">>)>>)
ReturnBody == assemble_body_line(Key_type, <<"i", "n", "t">>)
ErrorBody ==
    Join(<<assemble_body_line(Key_name, ValueErrorClass), assemble_body_line(Key_message, <<"b">>)>>)
CommandAppendix ==
    DictVal(<< <<Key_pos_args, ListVal(<<1>>)>>, <<Key_kw_args, DictVal(<<>>)>> >>)
ReturnAppendix == DictVal(<< <<Key_return, IntVal(1)>> >>)

WireTitles ==
    {COMMAND, RETURN, ERROR, Key_command, <<"R", "e", "t", "u", "r", "n">>,
     ERROR \o <<"S">>, <<SP>> \o COMMAND, <<>>}
ProbeLines ==
    {<<"a", ":", "b">>, <<"a", ":", "b", ":", "c">>, <<"a", "b">>, <<>>,
     <<"a", ":", "b", SP, "c", ":", "d">>, <<"a", SP, "b">>, <<"c", ":", "b", SP, "c">>}
WireBodies ==
    {CommandBody, ReturnBody, ErrorBody, NegativeCommandBody}
    \cup {Join(lines) : lines \in StrUpTo(ProbeLines, MaxLines)}
    \cup {body \o <<NL>> \o line : body \in {CommandBody, ReturnBody, ErrorBody},
                                  line \in ProbeLines}
WireAppendices ==
    {CommandAppendix, ReturnAppendix, DictVal(<<>>), ListVal(<<>>),
     DictVal(<< <<Key_error, IntVal(3)>> >>), IntVal(7)}

\* form = Form(title, body, appendix), as FormReceiverThread hands it over
WireForm ==
    /\ IsNone(harness.form)
    /\ \E title \in WireTitles, body \in WireBodies, appendix \in WireAppendices :
          harness' = [harness EXCEPT !.title = title, !.body = body, !.appendix = appendix,
                                     !.form = Some(Form(title, body, appendix))]
    /\ UNCHANGED <<tx, rx, t2r, r2t, now, handler, wrapper>>

\* CommandingBase.evaluate_commanding_form(form)
Evaluate ==
    /\ ~IsNone(harness.form)
    /\ harness.form[1].err = ""
    /\ IsNone(harness.read)
    /\ harness' = [harness EXCEPT
                     !.call = "evaluate_commanding_form",
                     !.read = Some(evaluate_commanding_form(FormVal(harness.form[1].form)))]
    /\ UNCHANGED <<tx, rx, t2r, r2t, now, handler, wrapper>>

\* the constructor cls(form) of the class named class
Wrap(class, form) ==
    CASE class = "CommandForm" -> CommandForm(FormVal(form), ListVal(<<>>), DictVal(<<>>), Reply, Reply)
      [] class = "ReturnForm" -> ReturnForm(FormVal(form))
      [] class = "ErrorForm" -> ErrorForm(FormVal(form))

\* CommandForm(form), ReturnForm(form) or ErrorForm(form)
WrapForm ==
    /\ ~IsNone(harness.form)
    /\ harness.form[1].err = ""
    /\ IsNone(harness.read)
    /\ \E class \in {"CommandForm", "ReturnForm", "ErrorForm"} :
          harness' = [harness EXCEPT !.call = class,
                                     !.read = Some(Wrap(class, harness.form[1].form))]
    /\ UNCHANGED <<tx, rx, t2r, r2t, now, handler, wrapper>>

\* CommandingForm(form), the constructor of the base class
WrapBase ==
    /\ ~IsNone(harness.form)
    /\ harness.form[1].err = ""
    /\ IsNone(harness.read)
    /\ harness' = [harness EXCEPT
                     !.call = "CommandingForm",
                     !.read = Some(CommandingForm(NoCommandingForm, harness.form[1].form))]
    /\ UNCHANGED <<tx, rx, t2r, r2t, now, handler, wrapper>>

NextEval ==
    \/ WireForm
    \/ Evaluate
    \/ WrapForm
    \/ WrapBase

SpecEval == Init /\ [][NextEval]_vars

(***************************************************************************)
(* A commanding form is made from a command and its arguments, from a      *)
(* value to return or from an exception, and a second object of its class  *)
(* is then constructed from the Form the first one built.                  *)
(***************************************************************************)
Names == {<<"g">>, <<"g", SP, "o">>, <<>>}
Handles == {<<"r">>, <<"a", ":", "b">>, <<>>}
PosArgs == {ListVal(<<>>), ListVal(<<1>>), ListVal(<<1, 2>>)}
KwArgs == {DictVal(<<>>), DictVal(<< <<<<"a">>, IntVal(2)>> >>)}
ReturnValues ==
    {IntVal(1), ListVal(<<>>), ListVal(<<1, 2>>), StrVal(<<"a">>), StrVal(<<>>), DictVal(<<>>)}
Messages == {<<>>, <<"b">>, <<"a", SP, "b">>, <<"a", NL, "b">>}
Exceptions == {ExcVal(class, message) : class \in ExceptionClasses, message \in Messages}

\* CommandForm(command, pos_args, kw_args, return_handle, error_handle)
MakeCommandForm ==
    /\ IsNone(harness.made)
    /\ \E command \in Names, pos_args \in PosArgs, kw_args \in KwArgs,
          return_handle \in Handles, error_handle \in Handles :
          harness' = [harness EXCEPT
                        !.call = "CommandForm",
                        !.args = <<command, pos_args, kw_args, return_handle, error_handle>>,
                        !.made = Some(CommandForm(StrVal(command), pos_args, kw_args,
                                                  return_handle, error_handle))]
    /\ UNCHANGED <<tx, rx, t2r, r2t, now, handler, wrapper>>

\* ReturnForm(return_value)
MakeReturnForm ==
    /\ IsNone(harness.made)
    /\ \E return_value \in ReturnValues :
          harness' = [harness EXCEPT !.call = "ReturnForm", !.args = <<return_value>>,
                                     !.made = Some(ReturnForm(return_value))]
    /\ UNCHANGED <<tx, rx, t2r, r2t, now, handler, wrapper>>

\* ErrorForm(exception)
MakeErrorForm ==
    /\ IsNone(harness.made)
    /\ \E exception \in Exceptions :
          harness' = [harness EXCEPT !.call = "ErrorForm", !.args = <<exception>>,
                                     !.made = Some(ErrorForm(exception))]
    /\ UNCHANGED <<tx, rx, t2r, r2t, now, handler, wrapper>>

\* cls(made.form), for the object made of class cls
Reconstruct ==
    /\ ~IsNone(harness.made)
    /\ harness.made[1].err = ""
    /\ IsNone(harness.read)
    /\ harness' = [harness EXCEPT
                     !.read = Some(Wrap(harness.call, harness.made[1].self.form[1]))]
    /\ UNCHANGED <<tx, rx, t2r, r2t, now, handler, wrapper>>

NextCmd ==
    \/ MakeCommandForm
    \/ MakeReturnForm
    \/ MakeErrorForm
    \/ Reconstruct

SpecCmd == Init /\ [][NextCmd]_vars

(***************************************************************************)
(* An ERROR Form arrives whose body names an error and gives a message,    *)
(* and ErrorForm(form) reconstructs the exception from it.  The names are  *)
(* two exception classes, two other builtins, a name that is bound to      *)
(* nothing, and the empty name.                                            *)
(***************************************************************************)
ErrorNames == ExceptionClasses \cup {Builtin_str, Builtin_len, <<"F", "o", "o">>, <<>>}
ErrorMessages == {<<>>, <<"b">>, <<"b", "c">>, <<"'">>, <<"a", "'">>}
ErrorAppendices == {DictVal(<<>>), ListVal(<<>>), DictVal(<< <<Key_error, IntVal(3)>> >>)}

\* form = Form("ERROR", "name:<name>\nmessage:<message>", appendix)
WireError ==
    /\ IsNone(harness.form)
    /\ \E name \in ErrorNames, message \in ErrorMessages, appendix \in ErrorAppendices :
          LET body == Join(<<assemble_body_line(Key_name, name),
                             assemble_body_line(Key_message, message)>>)
          IN harness' = [harness EXCEPT !.title = ERROR, !.body = body,
                                        !.appendix = appendix, !.args = <<name, message>>,
                                        !.form = Some(Form(ERROR, body, appendix))]
    /\ UNCHANGED <<tx, rx, t2r, r2t, now, handler, wrapper>>

\* ErrorForm(form)
ReconstructError ==
    /\ ~IsNone(harness.form)
    /\ harness.form[1].err = ""
    /\ IsNone(harness.read)
    /\ harness' = [harness EXCEPT !.call = "ErrorForm",
                                  !.read = Some(ErrorForm(FormVal(harness.form[1].form)))]
    /\ UNCHANGED <<tx, rx, t2r, r2t, now, handler, wrapper>>

NextErr ==
    \/ WireError
    \/ ReconstructError

SpecErr == Init /\ [][NextErr]_vars

(***************************************************************************)
(* A CommandContext executes an object: a CommandForm made from a command  *)
(* name and its arguments, the commanding form that                        *)
(* evaluate_commanding_form makes of a COMMAND, RETURN or ERROR Form, or a *)
(* Form that was not wrapped.  The command names are the three commands of *)
(* the context, a name it does not define and the empty name.              *)
(***************************************************************************)
CommandNames == {<<"g">>, <<"f">>, <<"o">>, <<"x">>, <<>>}

\* the body of the COMMAND Form for a command and a number of arguments
CommandBodyOf(command, count) ==
    Join(<<assemble_body_line(Key_error, <<"e">>), assemble_body_line(Key_return, <<"r">>),
           assemble_body_line(Key_command, command),
           assemble_body_line(Key_pos_args, StrOfInt(count))>>)

CommandAppendixOf(pos_args, kw_args) ==
    DictVal(<< <<Key_pos_args, pos_args>>, <<Key_kw_args, kw_args>> >>)

ContextForms ==
    {Form(COMMAND, CommandBodyOf(command, Len(pos_args.xs)),
          CommandAppendixOf(pos_args, kw_args)) :
       command \in CommandNames, pos_args \in PosArgs, kw_args \in KwArgs}
    \cup {Form(RETURN, ReturnBody, DictVal(<< <<Key_return, value>> >>)) :
            value \in {IntVal(1), ListVal(<<1, 2>>), StrVal(<<"a">>)}}
    \cup {Form(ERROR, ErrorBody, DictVal(<<>>))}

\* CommandForm(command, pos_args, kw_args)
MakeCommand ==
    /\ IsNone(harness.made)
    /\ \E command \in CommandNames, pos_args \in PosArgs, kw_args \in KwArgs :
          harness' = [harness EXCEPT
                        !.call = "CommandForm",
                        !.made = Some(CommandForm(StrVal(command), pos_args, kw_args,
                                                  Reply, Reply))]
    /\ UNCHANGED <<tx, rx, t2r, r2t, now, handler, wrapper>>

\* CommandingBase.evaluate_commanding_form(form) for a Form that arrived
ResolveForm ==
    /\ IsNone(harness.made)
    /\ \E f \in ContextForms :
          harness' = [harness EXCEPT
                        !.call = "evaluate_commanding_form",
                        !.form = Some(f),
                        !.made = Some(evaluate_commanding_form(FormVal(f.form)))]
    /\ UNCHANGED <<tx, rx, t2r, r2t, now, handler, wrapper>>

\* the Form itself, not wrapped
PassForm ==
    /\ IsNone(harness.made)
    /\ \E f \in ContextForms :
          harness' = [harness EXCEPT
                        !.call = "Form",
                        !.form = Some(f),
                        !.made = Some([err |-> "",
                                       self |-> [NoCommandingForm EXCEPT !.class = FormWord]])]
    /\ UNCHANGED <<tx, rx, t2r, r2t, now, handler, wrapper>>

\* command_context.execute_form(made)
Execute ==
    /\ ~IsNone(harness.made)
    /\ harness.made[1].err = ""
    /\ IsNone(harness.read)
    /\ harness' = [harness EXCEPT !.read = Some(execute_form(harness.made[1].self))]
    /\ UNCHANGED <<tx, rx, t2r, r2t, now, handler, wrapper>>

NextCtx ==
    \/ MakeCommand
    \/ ResolveForm
    \/ PassForm
    \/ Execute

SpecCtx == Init /\ [][NextCtx]_vars

(***************************************************************************)
(* The server session.  A CommandingHandler is constructed, or an object   *)
(* of a subclass that assigns the attributes itself, on a SocketConnection *)
(* or on another implementation of Connection, and its run() is executed.  *)
(* The peer is a script that writes up to MaxMessages messages and never   *)
(* reads: the identifier of the handler's command context or of another    *)
(* one, the line "request" or another line, a whole COMMAND Form as a      *)
(* transmitter writes it, or the title line of one; it may close or reset  *)
(* the connection.  rx is the FormReceiverThread that run() starts.        *)
(***************************************************************************)
ContextClass == <<"A">>
OtherContextClass == <<"B">>
SessionSeparation == <<"$">>

RequestForm ==
    Form(COMMAND, CommandBodyOf(<<"g">>, 1),
         CommandAppendixOf(ListVal(<<1>>), DictVal(<<>>))).form

\* the bytes a FormTransmitterThread writes for the form
Transfer(form, separation) ==
    form.title \o <<NL>> \o form.body \o <<NL>>
    \o assemble_separator(form, separation) \o <<NL>> \o form.appendix_encoded

PeerMessages ==
    {StrOfClass(ContextClass) \o <<NL>>, StrOfClass(OtherContextClass) \o <<NL>>,
     REQUEST \o <<NL>>, REQUEST \o <<SP, NL>>,
     Transfer(RequestForm, SessionSeparation), RequestForm.title \o <<NL>>}

\* CommandingHandler(connection, command_context)
NewHandler ==
    /\ handler.pc = "new"
    /\ \E connection \in {"SocketConnection", "Connection"} :
          handler' = CommandingHandler(connection, ContextClass)
    /\ UNCHANGED <<tx, rx, t2r, r2t, now, harness, wrapper>>

\* cls(connection, command_context) for a subclass cls of CommandingHandler
\* with its own __init__
NewSubclassHandler ==
    /\ handler.pc = "new"
    /\ \E connection \in {"SocketConnection", "Connection"} :
          handler' = SubclassHandler(connection, SessionSeparation, ContextClass)
    /\ UNCHANGED <<tx, rx, t2r, r2t, now, harness, wrapper>>

\* one statement of run()
HandlerStep ==
    LET r == HandlerRun(handler, t2r, r2t, harness.link, rx)
    IN /\ r.enabled
       /\ handler' = r.self
       /\ t2r' = r.inbound
       /\ r2t' = r.out
       /\ rx' = r.receiver
       /\ UNCHANGED <<tx, now, harness, wrapper>>

\* one statement of the receiver thread on the handler's connection: on a
\* connection that was reset every statement that reads or writes raises,
\* on a closed one a read that finds the stream at its end raises TypeError
\* (the message of the EOFError is formatted with len(bytes))
SessionReceiverStep ==
    LET r == ReceiverRun(rx, t2r, r2t, now)
        io == rx.pc \notin {"new", "run", "assemble_form", "done", "error"}
    IN IF harness.link = "reset" /\ io
       THEN /\ rx' = [rx EXCEPT !.pc = "error", !.error = "ConnectionResetError"]
            /\ UNCHANGED <<tx, t2r, r2t, now, harness, handler, wrapper>>
       ELSE IF harness.link = "eof" /\ io /\ ~r.enabled
       THEN /\ rx' = [rx EXCEPT !.pc = "error", !.error = "TypeError"]
            /\ t2r' = <<>>
            /\ UNCHANGED <<tx, r2t, now, harness, handler, wrapper>>
       ELSE /\ r.enabled
            /\ rx' = r.self
            /\ t2r' = r.inbound
            /\ r2t' = r.out
            /\ UNCHANGED <<tx, now, harness, handler, wrapper>>

\* the peer's sendall
PeerWrite ==
    /\ handler.pc \notin {"new", "raised"}
    /\ harness.link = "open"
    /\ harness.chunks < MaxMessages
    /\ \E message \in PeerMessages : t2r' = t2r \o message
    /\ harness' = [harness EXCEPT !.chunks = harness.chunks + 1]
    /\ UNCHANGED <<tx, rx, r2t, now, handler, wrapper>>

\* the peer closes the connection, or resets it
PeerClose ==
    /\ handler.pc \notin {"new", "raised"}
    /\ harness.link = "open"
    /\ \E link \in {"eof", "reset"} : harness' = [harness EXCEPT !.link = link]
    /\ UNCHANGED <<tx, rx, t2r, r2t, now, handler, wrapper>>

NextSrv ==
    \/ NewHandler
    \/ NewSubclassHandler
    \/ HandlerStep
    \/ SessionReceiverStep
    \/ PeerWrite
    \/ PeerClose

SpecSrv == Init /\ [][NextSrv]_vars

(***************************************************************************)
(* A receiver with a short timeout whose peer writes up to MaxChunks       *)
(* chunks, or none, while the clock advances.                              *)
(***************************************************************************)
\* FormReceiverThread(connection, separation, timeout)
ConstructReceiverTimed ==
    /\ rx.pc = "new"
    /\ \E timeout \in Timeouts : rx' = FormReceiverThread(<<"$">>, timeout)
    /\ UNCHANGED <<tx, t2r, r2t, now, harness, handler, wrapper>>

\* the peer's sendall: a title, a separator line, the bytes of an appendix
TimedChunks == {<<"T", NL>>, <<"$", "2", NL>>, <<"[", "]">>}

PeerSendTimed ==
    /\ rx.pc # "new"
    /\ harness.chunks < MaxChunks
    /\ \E chunk \in TimedChunks : t2r' = t2r \o chunk
    /\ harness' = [harness EXCEPT !.chunks = harness.chunks + 1]
    /\ UNCHANGED <<tx, rx, r2t, now, handler, wrapper>>

NextWait ==
    \/ ConstructReceiverTimed
    \/ PeerSendTimed
    \/ ReceiverStep
    \/ Tick

SpecWait == Init /\ [][NextWait]_vars

(***************************************************************************)
(* A Form made with either appendix encoder is written to a receiver by a  *)
(* peer, byte for byte as a FormTransmitterThread writes it.               *)
(***************************************************************************)
CodecBodies == {<<"a">>, <<"a", NL, "a">>}
CodecAppendices == {ListVal(<<>>), ListVal(<<1>>), ListVal(<<1, 2>>), IntVal(7), NoneVal}

\* form = Form(title, body, appendix, appendix_encoder)
NewCodecForm ==
    /\ IsNone(harness.form)
    /\ \E body \in CodecBodies, appendix \in CodecAppendices,
          encoder \in {JsonAppendixEncoder, PickleAppendixEncoder} :
          harness' = [harness EXCEPT
                        !.title = <<"T">>, !.body = body, !.appendix = appendix,
                        !.appendix_encoder = encoder,
                        !.form = Some(Form_appendix_encoder(<<"T">>, body, appendix, encoder))]
    /\ UNCHANGED <<tx, rx, t2r, r2t, now, handler, wrapper>>

\* the peer's sendall calls for the form
PeerTransfer ==
    /\ ~IsNone(harness.form)
    /\ harness.form[1].err = ""
    /\ rx.pc # "new"
    /\ harness.chunks = 0
    /\ t2r' = t2r \o Transfer(harness.form[1].form, rx.separation)
    /\ harness' = [harness EXCEPT !.chunks = 1]
    /\ UNCHANGED <<tx, rx, r2t, now, handler, wrapper>>

NextCodec ==
    \/ NewCodecForm
    \/ ConstructReceiverAlone
    \/ PeerTransfer
    \/ ReceiverStep

SpecCodec == Init /\ [][NextCodec]_vars

(***************************************************************************)
(* A SocketWrapper is constructed and connect is called once; every call   *)
(* of sock.connect is refused or accepted by the peer.  The run is cut     *)
(* after MaxTries calls of sock.connect.                                   *)
(***************************************************************************)
\* SocketWrapper(sock, connected)
NewWrapper ==
    /\ wrapper.pc = "new"
    /\ \E connected \in BOOLEAN : wrapper' = SocketWrapper(connected)
    /\ UNCHANGED <<tx, rx, t2r, r2t, now, harness, handler>>

\* wrapper.connect(ip, port, attempts, delay)
CallConnect ==
    /\ wrapper.pc = "idle"
    /\ \E attempts \in (0 - 1)..MaxAttempts, delay \in {0, 1} :
          wrapper' = connect(wrapper, attempts, delay, FALSE)
    /\ UNCHANGED <<tx, rx, t2r, r2t, now, harness, handler>>

\* one statement of the call
ConnectStep ==
    /\ wrapper.pc \in {"while", "sleep", "sock.connect", "if"}
    /\ wrapper.tries < MaxTries
    /\ \E refused \in BOOLEAN :
          wrapper' = connect(wrapper, wrapper.attempts, wrapper.delay, refused)
    /\ UNCHANGED <<tx, rx, t2r, r2t, now, harness, handler>>

NextConn ==
    \/ NewWrapper
    \/ CallConnect
    \/ ConnectStep

SpecConn == Init /\ [][NextConn]_vars

(***************************************************************************)
(* Two handlers at the two ends of one connection (harness.peer is the one *)
(* at the far end, which reads r2t and writes t2r), each with one of two   *)
(* command contexts and one of the two kinds of connection.                *)
(***************************************************************************)
NewPair ==
    /\ handler.pc = "new"
    /\ \E near, far \in {"SocketConnection", "Connection"},
          context, peer_context \in {ContextClass, OtherContextClass},
          separation \in RxSeparations :
          /\ handler' = SubclassHandler(near, separation, context)
          /\ harness' = [harness EXCEPT
                           !.peer = SubclassHandler(far, SessionSeparation, peer_context)]
    /\ UNCHANGED <<tx, rx, t2r, r2t, now, wrapper>>

\* one statement of run of the handler at the far end
PeerHandlerStep ==
    LET r == HandlerRun(harness.peer, r2t, t2r, harness.link, tx)
    IN /\ r.enabled
       /\ harness' = [harness EXCEPT !.peer = r.self]
       /\ r2t' = r.inbound
       /\ t2r' = r.out
       /\ UNCHANGED <<tx, rx, now, handler, wrapper>>

NextPair ==
    \/ NewPair
    \/ HandlerStep
    \/ PeerHandlerStep

SpecPair == Init /\ [][NextPair]_vars

(***************************************************************************)
(* The properties.                                                         *)
(***************************************************************************)
\* s starts with p
StartsWith(s, p) == Len(s) >= Len(p) /\ \A i \in 1..Len(p) : s[i] = p[i]

\* the first line in a stream that holds one
HeadLine(stream) == SubSeq(stream, 1, IndexOf(stream, NL, 1) - 1)

Count(s, c) == Cardinality({i \in 1..Len(s) : s[i] = c})

Constructed == tx.pc \notin {"new", "raised"} /\ rx.pc # "new"

\* neither thread can take a step: each is done, dead or blocked in a receive
Stopped ==
    /\ ~TransmitterRun(tx, t2r, r2t, now).enabled
    /\ ~ReceiverRun(rx, t2r, r2t, now).enabled

\* the Form the transmitter was constructed for
GivenForm == Form(harness.title, harness.body, harness.appendix).form

NoCollision ==
    \A i \in 1..Len(Split(harness.body)) :
        ~StartsWith(Split(harness.body)[i], tx.separation)

Waits == {"wait_ack_title", "wait_ack_line", "wait_ack_body", "wait_ack_appendix"}

\* the acks the receiver has sent to a peer that reads none
AcksSent == Len(r2t) \div Len(ACK)

\* C1: for a valid Form f with no body line starting with the separator, a
\* transmitter for f and a receiver with the same separator on one connection
\* end with the receiver holding a Form equal to f in title, body and appendix:
\* when both threads have stopped, the receiver is done and its Form equals f.
C1_RoundTrip ==
    (Constructed /\ NoCollision /\ Stopped) =>
        (rx.pc = "done" /\ ~IsNone(rx.form) /\ FormEq(rx.form[1], GivenForm))

\* C2: the receiver's acks match the transmitter's waits, so both threads set
\* finished and no unread byte is left in either direction: when both threads
\* have stopped, both are finished and both streams are empty.
C2_BothFinish ==
    (Constructed /\ Stopped) =>
        (tx.finished /\ rx.finished /\ t2r = <<>> /\ r2t = <<>>)

C6_TimeoutAborts ==
    (tx.pc = "error" /\ harness.chunks = 0) =>
        (tx.error = "TimeoutError" /\ now - tx.start > tx.timeout)

\* a received line is the separator: it starts with the token and is longer
IsSeparatorLine(line, separation) ==
    StartsWith(line, separation) /\ Len(line) > Len(separation)

\* C7: the receiver treats a line of the body as the separator if and only if
\* the line starts with the separator token and is strictly longer than it;
\* every other line is appended to the body and then acknowledged.
C7_SeparatorIff ==
    [][/\ (rx.pc = "receive_body" /\ rx' # rx) =>
            IF IsSeparatorLine(HeadLine(t2r), rx.separation)
            THEN rx'.line_list = rx.line_list /\ rx'.pc \in {"send_ack_body", "error"}
            ELSE /\ rx'.line_list = Append(rx.line_list, HeadLine(t2r))
                 /\ rx'.pc = "send_ack_line"
       /\ (rx.pc = "send_ack_line" /\ rx' # rx) =>
            (r2t' = r2t \o ACK /\ rx'.pc = "receive_body")]_vars

\* the body holds a line equal to the token and a line with the token after
\* column 0, both acknowledged, and the separator line has been recognised
C7_Witness ==
    /\ rx.pc = "send_ack_body"
    /\ rx.line_list = <<rx.separation, <<"0">> \o rx.separation>>
    /\ AcksSent = 3

\* C8: the appendix length the receiver parses from the separator line is the
\* length of the encoded appendix the transmitter announced in it.
C8_LengthParsed ==
    ~IsNone(harness.length) =>
        /\ harness.length[1].err = ""
        /\ harness.length[1].appendix_length = Len(tx.form.appendix_encoded)

\* C9: a transfer whose separator line announces an appendix of length 0
\* completes: the receiver never ends in an error after it has parsed 0.
C9_ZeroLengthCompletes == rx.appendix_length = Some(0) => rx.pc # "error"

\* C10: under the adjust policy no body line of the constructed transmitter's
\* Form starts with the separator token, so the receiver's test takes none for
\* the separator, and adjusting the body again changes nothing.
C10_AdjustedBodyFree ==
    (tx.pc \notin {"new", "raised"} /\ harness.adjust) =>
        /\ \A i \in 1..Len(Split(tx.form.body)) :
              /\ ~StartsWith(Split(tx.form.body)[i], tx.separation)
              /\ ~checkup_separation(Split(tx.form.body)[i], tx.separation)
        /\ adjust_body_string(tx.form.body, tx.separation) = tx.form.body

\* a body with a line that started with a token that itself starts with a
\* space has been adjusted
C10_Witness ==
    /\ tx.pc \notin {"new", "raised"}
    /\ harness.adjust
    /\ tx.separation[1] = SP
    /\ tx.form.body # harness.body

\* the body with one space put before each line that starts with the token
Prefixed(body, separation) ==
    Join([i \in 1..Len(Split(body)) |->
            IF StartsWith(Split(body)[i], separation) THEN <<SP>> \o Split(body)[i]
            ELSE Split(body)[i]])

\* C11: under the adjust policy the receiver assembles the original body with
\* one space before exactly the lines that started with the separator token,
\* and the title and the appendix as they were given: when both threads have
\* stopped, the receiver holds a Form with that title, body and appendix.
C11_AdjustedBodyArrives ==
    (Constructed /\ harness.adjust /\ Stopped) =>
        /\ ~IsNone(rx.form)
        /\ rx.form[1].title = harness.title
        /\ rx.form[1].body = Prefixed(harness.body, harness.separation)
        /\ rx.form[1].appendix = GivenForm.appendix

\* the arguments make a Form, and the Form is valid
GivenValid ==
    /\ Form(harness.title, harness.body, harness.appendix).err = ""
    /\ valid(GivenForm).err = ""
    /\ valid(GivenForm).v

\* a line of the body given starts with the separation given
GivenCollision ==
    \E i \in 1..Len(Split(harness.body)) :
        StartsWith(Split(harness.body)[i], harness.separation)

\* C12: under the strict policy (adjust=False), with a valid Form and an
\* accepted separation, the constructor raises ValueError when a body line
\* starts with the token, writes no byte and leaves the Form's body as it was;
\* when no line starts with the token it returns, the body as it was.
C12_StrictCollisionFails ==
    (/\ tx.pc # "new"
     /\ ~harness.adjust
     /\ GivenValid
     /\ Transmitter_check_separation(harness.separation) = "") =>
        /\ tx.form.body = harness.body
        /\ IF GivenCollision
           THEN tx.pc = "raised" /\ tx.error = "ValueError" /\ t2r = <<>>
           ELSE tx.pc # "raised"

\* the strict constructor has refused a body whose last line is the token
\* itself, after a line that does not collide
C12_Witness ==
    /\ tx.pc = "raised"
    /\ ~harness.adjust
    /\ GivenValid
    /\ harness.separation = <<"$">>
    /\ harness.body = <<"a", NL, "$">>

\* a separation the transmitter has to refuse: empty, only whitespace
\* characters, or with a newline
BadSeparation(separation) ==
    \/ \A i \in 1..Len(separation) : IsSpace(separation[i])
    \/ Contains(separation, NL)

\* C13: a transmitter constructed with a separation that is empty, only
\* whitespace or holds a newline, or with a Form that is not valid, fails in
\* the constructor, before a byte is written.
C13_BadArgumentsFail ==
    (/\ tx.pc # "new"
     /\ Form(harness.title, harness.body, harness.appendix).err = ""
     /\ (BadSeparation(harness.separation) \/ ~GivenValid)) =>
        (tx.pc = "raised" /\ t2r = <<>>)

\* the title has a character that is not a space
TitleNotBlank == \E i \in 1..Len(harness.title) : harness.title[i] # SP

\* the body and the encoded appendix of the Form built both have length zero
BodyAndEncodedEmpty ==
    Len(harness.form[1].form.body) = 0 /\ Len(harness.form[1].form.appendix_encoded) = 0

\* C14: Form.empty is true exactly when the body and the encoded appendix both
\* have length zero, whatever the title, and Form.valid is true exactly when
\* the title has a character other than a space and the Form is not empty in
\* that sense.
C14_ValidIffEncoded ==
    /\ ~IsNone(harness.empty) =>
          harness.empty[1] = [err |-> "", v |-> BodyAndEncodedEmpty]
    /\ ~IsNone(harness.valid) =>
          harness.valid[1] = [err |-> "", v |-> TitleNotBlank /\ ~BodyAndEncodedEmpty]

WellFormedGiven ==
    \/ harness.title = COMMAND /\ harness.body = CommandBody /\ harness.appendix = CommandAppendix
    \/ harness.title = RETURN /\ harness.body = ReturnBody /\ harness.appendix = ReturnAppendix
    \/ harness.title = ERROR /\ harness.body = ErrorBody /\ harness.appendix = DictVal(<<>>)

\* C16: evaluate_commanding_form raises ValueError for every title other than
\* COMMAND, RETURN and ERROR (compared with case); what it returns is a
\* CommandForm for COMMAND, a ReturnForm for RETURN and an ErrorForm for ERROR,
\* never another class; and it returns for a well-formed Form of each title.
C16_DispatchByTitle ==
    (harness.call = "evaluate_commanding_form" /\ ~IsNone(harness.read)) =>
        /\ harness.title \notin {COMMAND, RETURN, ERROR} => harness.read[1].err = "ValueError"
        /\ harness.read[1].err = "" =>
              \/ harness.title = COMMAND /\ harness.read[1].self.class = CommandFormClass
              \/ harness.title = RETURN /\ harness.read[1].self.class = ReturnFormClass
              \/ harness.title = ERROR /\ harness.read[1].self.class = ErrorFormClass
        /\ WellFormedGiven => harness.read[1].err = ""

\* a Form titled RETURN has been evaluated to a ReturnForm
C16_Witness ==
    /\ harness.call = "evaluate_commanding_form"
    /\ harness.title = RETURN
    /\ ~IsNone(harness.read)
    /\ harness.read[1].err = ""
    /\ harness.read[1].self.class = ReturnFormClass
    /\ harness.read[1].self.return_value = IntVal(1)

\* a line of the body given (the body split at newlines) has no ':' or more
\* than one
MalformedLineGiven ==
    \E i \in 1..Len(Split(harness.body)) : Count(Split(harness.body)[i], ":") # 1

\* C17: the constructor of each of the three classes, given a Form whose body
\* has a line with no ':' or with two or more, raises ValueError.
C17_MalformedBodyFails ==
    (/\ harness.call \in {"CommandForm", "ReturnForm", "ErrorForm"}
     /\ ~IsNone(harness.form)
     /\ ~IsNone(harness.read)
     /\ MalformedLineGiven) =>
        harness.read[1].err = "ValueError"

\* C18: a CommandForm made from a command name, positional arguments, keyword
\* arguments and two handles is made without error, and the CommandForm
\* constructed from its Form has the same name, arguments and handles.
C18_CommandRoundTrip ==
    (harness.call = "CommandForm" /\ ~IsNone(harness.made)) =>
        /\ harness.made[1].err = ""
        /\ ~IsNone(harness.read) =>
              /\ harness.read[1].err = ""
              /\ harness.read[1].self.command_name = harness.args[1]
              /\ harness.read[1].self.pos_args = harness.args[2]
              /\ harness.read[1].self.key_args = harness.args[3]
              /\ harness.read[1].self.return_handle = harness.args[4]
              /\ harness.read[1].self.error_handle = harness.args[5]

\* C19: a ReturnForm made from a value the codec can encode is made without
\* error, its Form is titled RETURN, and the ReturnForm constructed from that
\* Form returns the value.
C19_ReturnRoundTrip ==
    (harness.call = "ReturnForm" /\ ~IsNone(harness.made)) =>
        /\ harness.made[1].err = ""
        /\ harness.made[1].self.form[1].title = RETURN
        /\ ~IsNone(harness.read) =>
              /\ harness.read[1].err = ""
              /\ harness.read[1].self.return_value = harness.args[1]

\* C20: an ErrorForm made from an exception is made without error, whatever
\* the message; its Form is titled ERROR, its body is the two lines
\* name:<class name> and message:<message without newlines>, and its appendix
\* holds the exception when the codec can encode it and is empty otherwise.
C20_ErrorFormBuilt ==
    (harness.call = "ErrorForm" /\ ~IsNone(harness.made)) =>
        /\ harness.made[1].err = ""
        /\ harness.made[1].self.form[1].title = ERROR
        /\ harness.made[1].self.form[1].body =
              Key_name \o <<":">> \o harness.args[1].xs \o <<NL>> \o
              Key_message \o <<":">> \o SelectSeq(harness.args[1].s, LAMBDA c : c # NL)
        /\ harness.made[1].self.form[1].appendix =
              IF encode(harness.args[1]).err = ""
              THEN DictVal(<< <<Key_error, harness.args[1]>> >>)
              ELSE DictVal(<<>>)

(***************************************************************************)
(* C21: reconstructing the error of a received ERROR Form never evaluates  *)
(* text of the Form as code.  When the appendix carries no error object, a *)
(* name of the closed registry yields that registered error with the       *)
(* message, and every other name yields a generic remote error that        *)
(* carries the name and the message as plain data.                         *)
(***************************************************************************)
RemoteErrorClass == <<"R", "e", "m", "o", "t", "e", "E", "r", "r", "o", "r">>
RemoteError(name, message) == ExcVal(RemoteErrorClass, name \o <<":">> \o message)

C21_NoCodeEvaluated ==
    (/\ harness.call = "ErrorForm"
     /\ ~IsNone(harness.read)
     /\ harness.title = ERROR
     /\ Len(harness.args) = 2
     /\ Subscript(harness.appendix, Key_error).err # "")
    => /\ harness.read[1].err = ""
       /\ harness.read[1].self.exception =
            IF harness.args[1] \in ExceptionClasses
            THEN ExcVal(harness.args[1], harness.args[2])
            ELSE RemoteError(harness.args[1], harness.args[2])

(***************************************************************************)
(* C22: execute_form applied to a CommandForm whose command the context    *)
(* defines makes exactly one call, of the method of that command, with the *)
(* form's positional and keyword arguments, and its outcome is the outcome *)
(* of that call (the value returned or the exception raised); applied to a *)
(* ReturnForm it makes no call and returns the carried value.              *)
(***************************************************************************)
Executed == ~IsNone(harness.made) /\ ~IsNone(harness.read)

Registered(command_name) == command_name \in {<<"g">>, <<"f">>, <<"o">>}

C22_ExecuteForm ==
    Executed =>
      LET form == harness.made[1].self
          result == harness.read[1]
          method == CommandPrefix \o form.command_name
          outcome == Call(method, form.pos_args, form.key_args)
      IN /\ (form.class = CommandFormClass /\ Registered(form.command_name))
              => /\ result.calls = << <<method, form.pos_args, form.key_args>> >>
                 /\ result.err = outcome.err
                 /\ result.v = outcome.v
         /\ form.class = ReturnFormClass
              => /\ result.calls = <<>>
                 /\ result.err = ""
                 /\ result.v = form.return_value

\* the command g of a COMMAND Form that arrived was called with two
\* positional arguments and a keyword argument, and returned
C22_Witness ==
    /\ Executed
    /\ harness.call = "evaluate_commanding_form"
    /\ harness.made[1].self.class = CommandFormClass
    /\ harness.made[1].self.command_name = <<"g">>
    /\ Len(harness.made[1].self.key_args.xs) = 1
    /\ harness.read[1].err = ""
    /\ harness.read[1].v = ListVal(<<1, 2>>)

(***************************************************************************)
(* C23: execute_form applied to a CommandForm whose command the context    *)
(* does not define fails with CommandNotFound, not with the failure of an  *)
(* attribute lookup, and calls nothing.                                    *)
(***************************************************************************)
C23_UnknownCommandTyped ==
    (/\ Executed
     /\ harness.made[1].self.class = CommandFormClass
     /\ ~Registered(harness.made[1].self.command_name))
    => /\ harness.read[1].err = "CommandNotFound"
       /\ harness.read[1].calls = <<>>

(***************************************************************************)
(* C24: a request Form that the session has received is executed and its   *)
(* outcome is transmitted back, as a RETURN or as an ERROR Form, before    *)
(* the session waits for the next request: when the handler is back at     *)
(* wait_request with a Form received, the bytes it has written hold the    *)
(* title line of a reply.  (The peer never reads, so r2t holds all of      *)
(* them.)                                                                  *)
(***************************************************************************)
Holds(stream, piece) ==
    \E i \in 0..Len(stream) : StartsWith(SliceFrom(stream, i), piece)

C24_OutcomeTransmitted ==
    (handler.pc = "wait_request" /\ ~IsNone(handler.form))
    => \/ Holds(r2t, RETURN \o <<NL>>)
       \/ Holds(r2t, ERROR \o <<NL>>)

(***************************************************************************)
(* C25: the handler writes the line "ack" only when the line it has read   *)
(* is exactly "request", it starts a FormReceiverThread only right after   *)
(* that ack, and a step that reads any other line ends run with ValueError *)
(* and neither writes nor starts a receiver.                               *)
(***************************************************************************)
EndsWith(stream, piece) ==
    /\ Len(stream) >= Len(piece)
    /\ SubSeq(stream, Len(stream) - Len(piece) + 1, Len(stream)) = piece

C25_AckOnlyOnRequest ==
    [][/\ Count(r2t', NL) > Count(r2t, NL)
            => /\ handler.pc = "send_ack"
               /\ handler.line_string = Some(REQUEST)
               /\ r2t' = r2t \o ACK \o <<NL>>
       /\ (rx'.pc = "run" /\ rx.pc # "run")
            => /\ handler.pc = "start"
               /\ EndsWith(r2t, ACK \o <<NL>>)
               /\ r2t' = r2t
       /\ (/\ handler.pc = "wait_request"
           /\ handler'.line_string # handler.line_string
           /\ handler'.line_string # Some(REQUEST))
            => /\ handler'.pc = "error"
               /\ handler'.error = "ValueError"
               /\ r2t' = r2t
               /\ rx' = rx]_vars

\* the handler has read "request", written the ack and started a receiver,
\* which has taken the title of the Form
C25_Witness ==
    /\ handler.pc = "receive_form"
    /\ handler.line_string = Some(REQUEST)
    /\ ~IsNone(rx.title)
    /\ Holds(r2t, ACK \o <<NL>>)

(***************************************************************************)
(* C26: the handler is in the request loop only after a validation in      *)
(* which the peer's identifier was its own; once the identifiers differed  *)
(* run has ended with ConnectionAbortedError and the handler has written   *)
(* nothing but its one identifier.                                         *)
(***************************************************************************)
C26_MismatchAborts ==
    /\ handler.pc \in {"wait_request", "send_ack", "start", "receive_form"}
         => handler.client_command_context = Some(StrOfClass(command_context_class(handler)))
    /\ handler.caught = "ConnectionAbortedError"
         => /\ handler.pc = "error"
            /\ handler.error = "ConnectionAbortedError"
            /\ r2t = StrOfClass(command_context_class(handler))

(***************************************************************************)
(* C27: once a read or a write of the session has failed with a connection *)
(* error, run has ended with that error: the handler is not back at        *)
(* validate or in the request loop.                                        *)
(***************************************************************************)
C27_TransportFailureCloses ==
    handler.caught \in {"ConnectionResetError", "BrokenPipeError"}
    => /\ handler.pc = "error"
       /\ handler.error = handler.caught


\* the statements of FormReceiverThread.run that are a timed receive:
\* receive_line (until the delimiter) and receive_length_bytes (exact length)
TimedReceives == {"receive_title", "receive_body", "receive_appendix"}

\* C28: a timed receive on a connection that delivers no data fails with
\* TimeoutError once the timeout has elapsed instead of blocking: whenever the
\* receiver is in a timed receive, nothing has arrived for it and more than
\* `timeout` has passed since the call began, the call goes on (to raise
\* TimeoutError) rather than wait.
C28_TimedReceiveFails ==
    (/\ rx.pc \in TimedReceives
     /\ t2r = <<>>
     /\ now - rx.start > rx.timeout)
        => /\ ReceiverRun(rx, t2r, r2t, now).enabled
           /\ ReceiverRun(rx, t2r, r2t, now).self.error = "TimeoutError"


\* C29: an appendix given to the Form constructor as a str is taken as encoded
\* data: the Form's appendix is the decoded value, and a str that cannot be
\* decoded makes the construction raise ValueError.
C29_StrAppendixDecoded ==
    (/\ ~IsNone(harness.form)
     /\ harness.appendix.k = "str"
     /\ check_title(harness.title) = "")
        => IF decode(harness.appendix.s).err = ""
           THEN /\ harness.form[1].err = ""
                /\ harness.form[1].form.appendix = decode(harness.appendix.s).v
           ELSE harness.form[1].err = "ValueError"


\* C30: the receiver sends the final ack only after it has read the bytes of
\* the appendix and decoded them: once the ack that follows the appendix is
\* written (one ack for the title, one for every line of the body, one for the
\* separator and this one), the appendix is set and decodes without error.
C30_FinalAckAfterDecode ==
    (/\ rx.pc # "new"
     /\ ~IsNone(rx.appendix_length)
     /\ AcksSent = Len(rx.line_list) + 3)
        => /\ ~IsNone(rx.appendix)
           /\ decode(rx.appendix[1]).err = ""


\* C31: a Form constructed with a codec other than the default and transmitted
\* is decoded by the receiver with that codec: once the receiver has read the
\* whole transfer of a Form made with the PickleAppendixEncoder and gone
\* through assemble_form, it holds a Form whose appendix is the one sent.
C31_CodecRoundTrip ==
    (/\ harness.appendix_encoder = PickleAppendixEncoder
     /\ harness.chunks = 1
     /\ ~IsNone(rx.appendix)
     /\ rx.pc \in {"done", "error"})
        => /\ rx.pc = "done"
           /\ rx.form[1].appendix = harness.form[1].form.appendix


\* C32: when the receiver thread has aborted in the middle of a transfer, a
\* caller blocked in receive_form is released: with the session's handler in
\* receive_form and its receiver thread dead, receive_form does not block and
\* the handler's run goes on.
C32_ReceiveFormReleased ==
    (handler.pc = "receive_form" /\ rx.pc = "error")
        => /\ ~receive_form(rx).blocked
           /\ HandlerRun(handler, t2r, r2t, harness.link, rx).enabled


\* C33: CommandForm(form) for a received Form fails unless the value of
\* pos_args in the body parses as an integer that is not negative and the
\* appendix is a dict with a list under pos_args and a dict under kw_args.
C33_CommandFormChecks ==
    (/\ harness.call = "CommandForm"
     /\ ~IsNone(harness.read)
     /\ harness.read[1].err = "")
        => LET self == harness.read[1].self
               count == PyInt(DictGet(self.spec, Key_pos_args))
               appendix == harness.form[1].form.appendix
           IN /\ DictHas(self.spec, Key_pos_args)
              /\ count.err = ""
              /\ count.v >= 0
              /\ appendix.k = "dict"
              /\ Subscript(appendix, Key_pos_args).err = ""
              /\ Subscript(appendix, Key_pos_args).v.k = "list"
              /\ Subscript(appendix, Key_kw_args).err = ""
              /\ Subscript(appendix, Key_kw_args).v.k = "dict"


\* C34: for a body in which every line (between newlines) holds exactly one
\* ':' and no two lines have the same text before it, CommandingForm(form)
\* succeeds and the spec dict has one entry for every line, from the text
\* before the ':' to the text after it, spaces included.
C34_SpecOfBody ==
    (/\ harness.call = "CommandingForm"
     /\ ~IsNone(harness.read))
        => LET lines == SplitOn(harness.form[1].form.body, NL)
               key(i) == SubSeq(lines[i], 1, IndexOf(lines[i], ":", 1) - 1)
               value(i) == SliceFrom(lines[i], IndexOf(lines[i], ":", 1))
               made == harness.read[1]
           IN (/\ \A i \in 1..Len(lines) : Count(lines[i], ":") = 1
               /\ \A i, j \in 1..Len(lines) : key(i) = key(j) => i = j)
                 => /\ made.err = ""
                    /\ Len(made.self.spec) = Len(lines)
                    /\ \A i \in 1..Len(lines) :
                          /\ DictHas(made.self.spec, key(i))
                          /\ DictGet(made.self.spec, key(i)) = value(i)


\* C35: when the stream ends before the delimiter or the requested number of
\* bytes has arrived, the receive fails with EOFError: a handler that waits
\* for the request line, or a receiver that waits for a line or for the
\* appendix, and ends at the end of a stream that does not hold what it waits
\* for, ends with EOFError.
C35_EndOfStreamIsEOFError ==
    [][/\ (/\ harness.link = "eof"
           /\ handler.pc = "wait_request"
           /\ ~Contains(t2r, NL)
           /\ handler'.pc = "error")
            => handler'.error = "EOFError"
       /\ (/\ harness.link = "eof"
           /\ rx.pc \in TimedReceives
           /\ ~ReceiverRun(rx, t2r, r2t, now).enabled
           /\ rx'.pc = "error")
            => rx'.error = "EOFError"]_vars


\* C36: SocketWrapper.connect terminates: it makes no more calls of
\* sock.connect than the attempts it was given, it raises
\* ConnectionRefusedError when all of them failed, and when one succeeded it
\* sets connected and returns without raising.
C36_ConnectTerminates ==
    (wrapper.pc \notin {"new", "idle"} /\ wrapper.error # "AssertionError")
        => /\ wrapper.tries <= wrapper.given
           /\ wrapper.pc = "raised"
                => (wrapper.error = "ConnectionRefusedError" /\ ~wrapper.connected)


\* C37: a line read takes from the stream the bytes up to and including the
\* first newline and returns them without the newline: a step of the receiver
\* in receive_title or receive_body that reads leaves in the stream exactly
\* the bytes that followed the first newline, and the title, the line of the
\* body or the separator line it has taken is the text before that newline;
\* so the bytes of the appendix that had arrived are still there after the
\* separator line was read.
C37_LineReadExact ==
    [][(rx.pc \in {"receive_title", "receive_body"} /\ rx' # rx)
         => LET i == IndexOf(t2r, NL, 1)
                line == SubSeq(t2r, 1, i - 1)
            IN /\ i > 0
               /\ t2r' = SubSeq(t2r, i + 1, Len(t2r))
               /\ rx'.pc = "send_ack_title" => rx'.title = Some(line)
               /\ rx'.pc = "send_ack_line" => rx'.line_list = Append(rx.line_list, line)
               /\ rx'.pc = "send_ack_body"
                    => /\ checkup_separation(line, rx.separation)
                       /\ rx'.appendix_length =
                            Some(process_separation(line, rx.separation).appendix_length)]_vars

\* the separator line has been read while the two bytes of the appendix it
\* announces had already arrived, and they are still in the stream
C37_Witness ==
    /\ rx.pc = "send_ack_body"
    /\ rx.appendix_length = Some(2)
    /\ t2r = <<"[", "]">>


C39_ValidNeverRaises ==
    /\ ~IsNone(harness.empty) => harness.empty[1].err = ""
    /\ ~IsNone(harness.valid)
         => /\ harness.valid[1].err = ""
            /\ Transmitter_check_form(harness.form[1].form) \in {"", "ValueError"}


\* C40: the context identifier sent in validate ends with a newline, so a
\* peer that reads it as a line gets it, and two handlers with the same
\* command context that have each sent their identifier and now read the
\* other's both go on: neither waits for a line that is not there.
C40_IdentifierIsALine ==
    (/\ handler.pc = "receive_line"
     /\ harness.peer.pc = "receive_line"
     /\ handler.connection = "Connection"
     /\ harness.peer.connection = "Connection"
     /\ command_context_class(handler) = command_context_class(harness.peer))
        => /\ r2t # <<>> => r2t[Len(r2t)] = NL
           /\ t2r # <<>> => t2r[Len(t2r)] = NL
           /\ HandlerRun(handler, t2r, r2t, harness.link, rx).enabled
           /\ HandlerRun(harness.peer, r2t, t2r, harness.link, tx).enabled

====
